---- MODULE Spec2Model ----
(***************************************************************************)
(* A model of the KAVACH rider-safety monitor: the confidence scorer        *)
(* (lib/confidenceScoring.ts), the location memory (lib/locationMemory.ts), *)
(* the voice confirmation listener (lib/voiceConfirmation.ts), the risk     *)
(* event detector (lib/rideMonitor.ts), the page handlers (pages/Index.tsx) *)
(* and the offline store (lib/offlineStorage.ts).                           *)
(*                                                                          *)
(* Times are milliseconds, as Date.now() gives them.  Optional values are   *)
(* sequences of length 0 or 1 (<<>> is undefined/null).                     *)
(***************************************************************************)
EXTENDS Integers, Sequences, FiniteSets, TLC

VARIABLES
  \* ---- confidence scorer: one call of the pure functions
  scIn,        \* <<>> or <<[event, context]>>: arguments of calculateConfidence
  scOut,       \* <<>> or <<ScoredRiskEvent>>: its result
  decision,    \* <<>> or <<[action, auto]>>: getConfidenceAction / shouldAutoTriggerEmergency
  \* ---- location memory (localStorage 'kavach_location_memories')
  memories,    \* cell -> <<>> or <<[falseAlarmCount, trueAlarmCount]>>
  \* ---- the clock (Date.now())
  now,
  \* ---- voice confirmation: the VoiceConfirmationListener singleton, the
  \* browser timers it armed, the speech engine and the callbacks it made
  voice,
  \* ---- the ride: the RideMonitor singleton, the state and handlers of the
  \* Index page, the EmergencyOverlay and the stored emergency events
  ride,
  \* ---- the observed window: the number of clock ticks during which the
  \* rider, the sensors and the callers act (fixed by the initial state)
  window,
  \* ---- the offline store (localStorage 'kavach_ride_sessions',
  \* 'kavach_risk_events', 'kavach_emergency_events'), its syncs in flight
  \* and the remote tables
  store,
  \* ---- the remote table location_memories and the transfers in flight
  memNet,
  \* ---- one call of fuzzyMatch: its arguments and its result
  fuzzy,
  \* ---- the FatigueDetector singleton, its interval timer and its nudges
  fatigue,
  \* ---- the EmergencyOverlay component: its state, its interval and its
  \* ---- delayed onResolve, second by second
  overlay,
  \* ---- the position watch and the idle check of the RideMonitor
  tracker

scoreVars == <<scIn, scOut, decision>>
memVars == <<memories>>
voiceVars == <<voice>>
rideVars == <<ride>>
vars == <<scIn, scOut, decision, memories, now, voice, ride, window, store, memNet, fuzzy, fatigue, overlay, tracker>>

(***************************************************************************)
(* Arithmetic helpers                                                       *)
(***************************************************************************)
Min(a, b) == IF a <= b THEN a ELSE b
Max(a, b) == IF a >= b THEN a ELSE b

\* Math.round(p / q) for q > 0: the nearest integer, halves towards +infinity.
MathRound(p, q) == (2 * p + q) \div (2 * q)

(***************************************************************************)
(* rideMonitor.ts: RiskEvent                                                *)
(***************************************************************************)
EventTypes == {"speed_warning", "heat_warning", "unsafe_zone", "sudden_stop",
               "fall_detected", "long_idle", "wellness_check"}
Severities == {"low", "medium", "high", "critical"}

(***************************************************************************)
(* locationMemory.ts                                                        *)
(***************************************************************************)
MaxCells == 1
Cells == 1..MaxCells

\* getLocationMemory: the stored entry of a cell, or null.
getLocationMemory(cell) == memories[cell]

\* variant: the adjustment without the smaller scale for fewer than 3 events
getLocationConfidenceAdjustment_oneScale(cell) ==
  LET memory == getLocationMemory(cell) IN
  IF memory = <<>> THEN 0
  ELSE LET f == memory[1].falseAlarmCount
           totalEvents == memory[1].falseAlarmCount + memory[1].trueAlarmCount
       IN IF totalEvents = 0 THEN 0 ELSE -MathRound(f * 30, totalEvents)

\* getLocationConfidenceAdjustment, for the cell of (lat, lng).
getLocationConfidenceAdjustment(cell) ==
  LET memory == getLocationMemory(cell) IN
  IF memory = <<>> THEN 0
  ELSE LET f == memory[1].falseAlarmCount
           totalEvents == memory[1].falseAlarmCount + memory[1].trueAlarmCount
       IN IF totalEvents = 0 THEN 0
          ELSE IF totalEvents < 3 THEN -MathRound(f * 10, totalEvents)
          ELSE -MathRound(f * 30, totalEvents)

(***************************************************************************)
(* confidenceScoring.ts                                                     *)
(***************************************************************************)
SUPPRESS == 40
CONFIRM_REQUIRED == 70
IMMEDIATE_ALERT == 70
EMERGENCY_AUTO == 85

\* 1. base score from the severity (the switch of lines 52-65)
SeverityBase(severity) ==
  CASE severity = "critical" -> 35
    [] severity = "high" -> 25
    [] severity = "medium" -> 15
    [] severity = "low" -> 8
    [] OTHER -> 0

\* Math.round(sensorIntensity * 0.4)
ScaleIntensity(x) == MathRound(4 * x, 10)

\* variant: the factor without the adjustment by event type
SensorIntensityFactor_noTypeAdjustment(event, context) ==
  IF context.sensorIntensity # <<>>
  THEN Min(40, ScaleIntensity(context.sensorIntensity[1]))
  ELSE SeverityBase(event.severity)

\* 1-2. the sensorIntensity factor
SensorIntensityFactor(event, context) ==
  LET base == IF context.sensorIntensity # <<>>
              THEN Min(40, ScaleIntensity(context.sensorIntensity[1]))
              ELSE SeverityBase(event.severity)
  IN IF event.type = "fall_detected" THEN Min(40, base + 10)
     ELSE IF event.type = "sudden_stop" THEN Min(40, base + 5)
     ELSE IF event.type \in {"speed_warning", "heat_warning"} THEN Max(10, base - 5)
     ELSE base

\* 3. recentSimilar: the history events of the same type that pass the filter
RecentSimilar(event, context) ==
  {i \in 1..Len(context.recentEvents) :
     /\ context.recentEvents[i].type = event.type
     /\ event.timestamp - context.recentEvents[i].timestamp < 30000}

\* variant: the factor without its cap
PatternDurationFactor_uncapped(event, context) ==
  Cardinality(RecentSimilar(event, context)) * 7

PatternDurationFactor(event, context) ==
  LET n == Cardinality(RecentSimilar(event, context))
  IN IF n > 0 THEN Min(20, n * 7) ELSE 0

\* 4. location adjustment (event.location, reduced to its cell; 0 is no location)
LocationFactor(event) ==
  IF event.cell # 0 THEN getLocationConfidenceAdjustment(event.cell) ELSE 0

\* 5. time of day, from new Date().getHours()
TimeOfDayFactor(hour) ==
  IF hour >= 22 \/ hour < 5 THEN 10
  ELSE IF hour >= 19 \/ hour < 7 THEN 5
  ELSE 0

\* 6. speed context
SpeedContextFactor(currentSpeed) ==
  IF currentSpeed > 40 THEN 15
  ELSE IF currentSpeed > 20 THEN 10
  ELSE IF currentSpeed > 5 THEN 5
  ELSE 0

\* 7. behaviour consistency: eventsPerMinute = length / max(1, minutes), compared
\* with 2 and 1 after multiplying through by the (positive) denominator
BehaviorFactor(context) ==
  LET elapsed == Max(60000, context.now - context.rideStartTime)
      n == Len(context.recentEvents)
  IN IF n * 60000 > 2 * elapsed THEN -20
     ELSE IF n * 60000 > elapsed THEN -10
     ELSE 0

ConfidenceFactors(event, context) ==
  [sensorIntensity |-> SensorIntensityFactor(event, context),
   patternDuration |-> PatternDurationFactor(event, context),
   locationAdjustment |-> LocationFactor(event),
   timeOfDay |-> TimeOfDayFactor(context.hour),
   speedContext |-> SpeedContextFactor(context.currentSpeed),
   behaviorConsistency |-> BehaviorFactor(context)]

FactorSum(f) ==
  f.sensorIntensity + f.patternDuration + f.locationAdjustment +
  f.timeOfDay + f.speedContext + f.behaviorConsistency

\* variant: the clamp without its lower bound
ClampConfidence_noFloor(sum) == Min(100, sum)

\* the clamp of lines 125-132
ClampConfidence(sum) == Min(100, Max(0, sum))

calculateConfidence(event, context) ==
  LET factors == ConfidenceFactors(event, context)
      confidence == ClampConfidence(FactorSum(factors))
  IN [type |-> event.type,
      severity |-> event.severity,
      timestamp |-> event.timestamp,
      cell |-> event.cell,
      confidence |-> confidence,
      confidenceFactors |-> factors,
      requiresConfirmation |-> (confidence >= SUPPRESS /\ confidence < IMMEDIATE_ALERT)]

\* variant: the alert band tested before the emergency band
getConfidenceAction_alertFirst(confidence) ==
  IF confidence < SUPPRESS THEN "suppress"
  ELSE IF confidence >= IMMEDIATE_ALERT THEN "alert"
  ELSE IF confidence >= EMERGENCY_AUTO THEN "emergency"
  ELSE "confirm"

getConfidenceAction(confidence) ==
  IF confidence < SUPPRESS THEN "suppress"
  ELSE IF confidence >= EMERGENCY_AUTO THEN "emergency"
  ELSE IF confidence >= IMMEDIATE_ALERT THEN "alert"
  ELSE "confirm"

\* variant: the critical-severity rule with the fall threshold
shouldAutoTriggerEmergency_oneThreshold(event) ==
  IF event.type = "fall_detected" /\ event.confidence >= EMERGENCY_AUTO THEN TRUE
  ELSE IF event.severity = "critical" /\ event.confidence >= EMERGENCY_AUTO THEN TRUE
  ELSE FALSE

shouldAutoTriggerEmergency(event) ==
  IF event.type = "fall_detected" /\ event.confidence >= EMERGENCY_AUTO THEN TRUE
  ELSE IF event.severity = "critical" /\ event.confidence >= 90 THEN TRUE
  ELSE FALSE

(***************************************************************************)
(* voiceConfirmation.ts: the VoiceConfirmationListener singleton            *)
(*                                                                          *)
(* voice is a record:                                                       *)
(*   recognition  TRUE iff the device has a SpeechRecognition (this.recognition # null) *)
(*   isListening, startTime, timeoutId, options, cancelled: the fields      *)
(*       (options holds the session of the caller's callbacks)              *)
(*   timers   the pending setTimeout callbacks, [session, kind, due]: the   *)
(*            deadline timer and the delayed-listen timer that start() arms *)
(*   engine   the speech engine: idle, starting, running, stopping, errored *)
(*   started  number of start() calls; session s is the s-th call           *)
(*   cb       per session, the callbacks made: results (the onResult calls), *)
(*            listening (the flag of the last onListening call), transcript *)
(*            (the text of the last onTranscript call), late (TRUE once a   *)
(*            callback was made after the caller's stop() of the session)   *)
(*   deadline per session, <<>> or the time at which its deadline falls     *)
(*   outcome  per session, <<>> or the result that handleResult accepted    *)
(*   handled  per session, the number of handleResult calls while it was    *)
(*            the latest session, counted up to MaxHandled                  *)
(*   stopped  the sessions on which the caller called stop()                *)
(*   restopped  TRUE once the caller called stop() on a session it had     *)
(*            stopped already                                               *)
(*   reports  the timers of the overlay's onResult (VoiceConfirmationOverlay *)
(*            lines 41-47) that wait to pass a result on: [session, result, *)
(*            due]                                                          *)
(***************************************************************************)
MaxSessions == 2
MaxHandled == 2
MaxTranscripts == 2

Sessions == 1..MaxSessions
DEFAULT_TIMEOUT_MS == 5000
LISTEN_DELAY_MS == 500
RESULT_DISPLAY_MS == 800

\* timeoutMs of the options: undefined, or a number
TimeoutCases == {<<>>, <<1500>>}

\* options.timeoutMs || 5000
EffectiveTimeout(timeoutMs) ==
  IF timeoutMs = <<>> \/ timeoutMs = <<0>> THEN DEFAULT_TIMEOUT_MS ELSE timeoutMs[1]

\* transcripts the engine may deliver, and their classification (the exact-match
\* case of fuzzyMatch over the ok and danger keywords; danger is tested first)
Transcripts == {"okay", "help", "hello"}
DANGER_KEYWORDS == {"help", "danger", "emergency"}
OK_KEYWORDS == {"okay", "ok", "fine"}
classifyInput(text) ==
  IF text \in DANGER_KEYWORDS THEN "danger"
  ELSE IF text \in OK_KEYWORDS THEN "ok"
  ELSE "none"

\* errors after which recognition.onerror does not finalize
BenignErrors == {"no-speech", "aborted"}
EngineErrors == {"no-speech", "aborted", "not-allowed"}

\* recognition.start(): begins a recognition; throws (caught by every caller)
\* when one is under way
recognitionStart(v) ==
  IF v.recognition /\ v.engine = "idle" THEN [v EXCEPT !.engine = "starting"] ELSE v

\* recognition.stop(): the engine winds down and will fire 'end'
recognitionStop(v) ==
  IF v.engine \in {"starting", "running"} THEN [v EXCEPT !.engine = "stopping"] ELSE v

\* this.options?.onListening?.(flag)
callOnListening(v, flag) ==
  IF v.options = <<>> THEN v
  ELSE LET s == v.options[1].session
       IN [v EXCEPT !.cb[s].listening = <<flag>>,
                    !.cb[s].late = @ \/ s \in v.stopped]

\* the onResult that VoiceConfirmationOverlay passes to start() (lines
\* 41-47): the result is shown and passed on after a short delay
overlayOnResult(v, s, result, t) ==
  [v EXCEPT !.reports = @ \cup {[session |-> s, result |-> result,
                                 due |-> t + RESULT_DISPLAY_MS]}]

\* this.options?.onResult(result, responseTime)
callOnResult(v, result, responseTime, t) ==
  IF v.options = <<>> THEN v
  ELSE LET s == v.options[1].session
           v1 == [v EXCEPT !.cb[s].results =
                       Append(@, [result |-> result, responseTime |-> responseTime, at |-> t]),
                    !.cb[s].late = @ \/ s \in v.stopped]
       IN overlayOnResult(v1, s, result, t)

\* variant: stop() that keeps this.options
stop_keepOptions(v) ==
  LET v1 == [v EXCEPT !.cancelled = TRUE,
                      !.timers = IF v.timeoutId = <<>> THEN @
                                 ELSE {x \in @ : ~(x.kind = "deadline" /\ x.session = v.timeoutId[1])},
                      !.timeoutId = <<>>]
      v2 == recognitionStop(v1)
  IN callOnListening([v2 EXCEPT !.isListening = FALSE], FALSE)

\* stop() (lines 277-294)
stop(v) ==
  LET v1 == [v EXCEPT !.cancelled = TRUE,
                      !.timers = IF v.timeoutId = <<>> THEN @
                                 ELSE {x \in @ : ~(x.kind = "deadline" /\ x.session = v.timeoutId[1])},
                      !.timeoutId = <<>>]
      v2 == recognitionStop(v1)
      v3 == callOnListening([v2 EXCEPT !.isListening = FALSE], FALSE)
  IN [v3 EXCEPT !.options = <<>>]

\* the latest session, for the bookkeeping of handleResult
LatestSession(v) == v.started

\* variant: handleResult without the cancelled guard, reporting through the
\* options it read before stop()
handleResult_unguarded(v, result, by, t) ==
  LET responseTime == t - v.startTime
      s == LatestSession(v)
      v1 == stop(v)
      v2 == IF s = 0 THEN v1
            ELSE [v1 EXCEPT !.cb[s].results =
                    Append(@, [result |-> result, responseTime |-> responseTime, at |-> t]),
                            !.cb[s].late = @ \/ s \in v.stopped,
                            !.handled[s] = Min(MaxHandled, @ + 1)]
  IN v2

\* handleResult(result) (lines 225-239); by names the caller (deadline, stale
\* deadline of an earlier start, error, transcript, cancel), t is Date.now()
handleResult(v, result, by, t) ==
  LET s == LatestSession(v)
      counted == IF s = 0 THEN v ELSE [v EXCEPT !.handled[s] = Min(MaxHandled, @ + 1)]
  IN IF v.cancelled THEN counted
     ELSE LET responseTime == t - v.startTime
              accepted == IF v.options = <<>> THEN counted
                          ELSE [counted EXCEPT !.outcome[v.options[1].session] =
                                  <<[result |-> result, by |-> by]>>]
              v1 == stop(accepted)
          IN callOnResult(v1, result, responseTime, t)

\* variant: start() whose fallback returns without calling onResult
start_silentFallback(v, timeoutMs, t) ==
  LET s == v.started + 1 IN
  IF ~v.recognition
  THEN [v EXCEPT !.started = s, !.returned[s] = <<FALSE>>]
  ELSE [v EXCEPT !.started = s,
                 !.returned[s] = <<TRUE>>,
                 !.deadline[s] = <<t + EffectiveTimeout(timeoutMs)>>,
                 !.options = <<[session |-> s, timeoutMs |-> timeoutMs]>>,
                 !.cancelled = FALSE,
                 !.startTime = t,
                 !.timeoutId = <<s>>,
                 !.timers = @ \cup
                    {[session |-> s, kind |-> "deadline", due |-> t + EffectiveTimeout(timeoutMs)],
                     [session |-> s, kind |-> "listen", due |-> t + LISTEN_DELAY_MS]}]

\* start(options) (lines 241-275) for the n-th caller, at time t; returned
\* keeps what the call returned
start(v, timeoutMs, t) ==
  LET s == v.started + 1 IN
  IF ~v.recognition
  THEN overlayOnResult(
         [v EXCEPT !.started = s,
                   !.returned[s] = <<FALSE>>,
                   !.cb[s].results = Append(@, [result |-> "timeout",
                                                responseTime |-> EffectiveTimeout(timeoutMs),
                                                at |-> t])],
         s, "timeout", t)
  ELSE [v EXCEPT !.started = s,
                 !.returned[s] = <<TRUE>>,
                 !.deadline[s] = <<t + EffectiveTimeout(timeoutMs)>>,
                 !.options = <<[session |-> s, timeoutMs |-> timeoutMs]>>,
                 !.cancelled = FALSE,
                 !.startTime = t,
                 !.timeoutId = <<s>>,
                 !.timers = @ \cup
                    {[session |-> s, kind |-> "deadline", due |-> t + EffectiveTimeout(timeoutMs)],
                     [session |-> s, kind |-> "listen", due |-> t + LISTEN_DELAY_MS]}]

\* cancel() (lines 296-298)
cancel(v, t) == handleResult(v, "cancelled", "cancel", t)

\* recognition.onstart (lines 176-179)
onstart(v) == callOnListening([v EXCEPT !.isListening = TRUE], TRUE)

\* the condition under which onend restarts the recognizer (line 186)
stillWaiting(v) == v.options # <<>> /\ ~v.cancelled /\ v.timeoutId # <<>>

\* variant: onend that never restarts the recognizer
onend_noRestart(v) == callOnListening([v EXCEPT !.isListening = FALSE], FALSE)

\* recognition.onend (lines 181-193)
onend(v) ==
  LET v1 == callOnListening([v EXCEPT !.isListening = FALSE], FALSE)
  IN IF stillWaiting(v1) THEN recognitionStart(v1) ELSE v1

\* recognition.onerror (lines 195-202)
onerror(v, error, t) ==
  IF error \notin BenignErrors THEN handleResult(v, "timeout", "error", t) ELSE v

\* this.options?.onTranscript?.(transcript)
callOnTranscript(v, text) ==
  IF v.options = <<>> THEN v
  ELSE LET s == v.options[1].session
       IN [v EXCEPT !.cb[s].transcript = <<text>>,
                    !.cb[s].late = @ \/ s \in v.stopped]

\* recognition.onresult (lines 204-222): the transcripts of the event in
\* order, up to the first one that classifies
RECURSIVE onresult(_, _, _)
onresult(v, texts, t) ==
  IF texts = <<>> THEN v
  ELSE LET v1 == callOnTranscript(v, Head(texts))
           classification == classifyInput(Head(texts))
       IN IF classification # "none"
          THEN handleResult(v1, classification, "transcript", t)
          ELSE onresult(v1, Tail(texts), t)

\* the listener after construction, on a device with or without recognition
NewListener(hasRecognition) ==
  [recognition |-> hasRecognition,
   isListening |-> FALSE,
   startTime |-> 0,
   timeoutId |-> <<>>,
   options |-> <<>>,
   cancelled |-> FALSE,
   timers |-> {},
   engine |-> "idle",
   started |-> 0,
   deadline |-> [s \in Sessions |-> <<>>],
   returned |-> [s \in Sessions |-> <<>>],
   cb |-> [s \in Sessions |-> [results |-> <<>>, listening |-> <<>>, transcript |-> <<>>, late |-> FALSE]],
   outcome |-> [s \in Sessions |-> <<>>],
   handled |-> [s \in Sessions |-> 0],
   stopped |-> {},
   restopped |-> FALSE,
   reports |-> {}]

(***************************************************************************)
(* rideMonitor.ts (RideMonitor), pages/Index.tsx (the page's state and      *)
(* handlers), components/RideStatus.tsx (EmergencyOverlay) and the          *)
(* emergency events of offlineStorage.ts                                    *)
(*                                                                          *)
(* ride is a record:                                                        *)
(*   isActive, riskEvents   RideMonitor.state (riskEvents as the set of its *)
(*                 [type, timestamp] entries)                               *)
(*   onRiskEvent, onEmergency   the handlers given to the monitor: <<>> or  *)
(*                 the values of sessionId and isEmergencyActive that the   *)
(*                 callback closed over when the page rendered it           *)
(*   timers        pending setTimeout callbacks [kind, due, ref]: "fall"    *)
(*                 (triggerRiskEvent, ref = the event's timestamp),         *)
(*                 "countdown" (the overlay's countdown reaching 0) and     *)
(*                 "resolve" (handleImOkay, ref = the emergencyEventId its  *)
(*                 onResolve closed over)                                   *)
(*   starting      <<>> or the closure values of the handleStartRide that   *)
(*                 awaits startMonitoring                                   *)
(*   isLoading, isRideActive, sessionId, isEmergencyActive,                 *)
(*   emergencyEventId   the page's React state (0 is null)                  *)
(*   phase         EmergencyOverlay's phase                                 *)
(*   rides         number of ride sessions begun                            *)
(*   emergencyEvents   localStorage 'kavach_emergency_events': the event   *)
(*                 with id i is the i-th                                    *)
(*   syncing       ids whose syncEmergencyToCloud awaits its upsert         *)
(*   epoch         number of times startMonitoring or stopMonitoring has    *)
(*                 replaced the monitor's state                             *)
(*   lastNotified, prevNotified   per type, the last and the last but one   *)
(*                 accepted event (speak and vibrate were called), as       *)
(*                 <<>> or <<[timestamp, epoch]>>                           *)
(*   dropped       TRUE once the debounce has dropped a trigger             *)
(*   lastHandled   <<>> or the last event passed to the risk-event handler  *)
(*   riskStored    the events that saveRiskEvent stored                     *)
(*   owed          timestamps of the accepted falls whose timer has not yet *)
(*                 run the emergency handler                                *)
(*   lastEscalated <<>> or the timestamp of the last fall whose timer ran   *)
(*                 the emergency handler and left the emergency active      *)
(*   activatedAt   <<>> or the time at which the emergency that is counting *)
(*                 down became active                                       *)
(*   emergencyRide the ride session (0 is none) during which the active     *)
(*                 emergency was raised                                     *)
(*   lastCancel    <<>> or, for the last emergency cancelled in its         *)
(*                 countdown, its ride session and the status that the      *)
(*                 store held for it once the cancel handler had run        *)
(*                 ("none" when the store holds no event for it)            *)
(***************************************************************************)
MaxRides == 2
MaxEmergencies == 2

DEBOUNCE_MS == 60000
FALL_ESCALATION_DELAY_MS == 10000
COUNTDOWN_SECONDS == 10
RESOLVE_DELAY_MS == 1500
FALL_THRESHOLD == 25

\* the closure values of the handlers that a render of the page creates
Closure(r) == [sessionId |-> r.sessionId, isEmergencyActive |-> r.isEmergencyActive]

\* syncEmergencyToCloud(event) up to its await (lines 279-299): nothing when
\* offline
syncEmergencyToCloud(r, id, online) ==
  IF online THEN [r EXCEPT !.syncing = @ \cup {id}] ELSE r

\* saveEmergencyEvent (lines 157-184); the id of the new event is its index
saveEmergencyEvent(r, sessionId, online) ==
  LET id == Len(r.emergencyEvents) + 1
      r1 == [r EXCEPT !.emergencyEvents =
                Append(@, [session |-> sessionId, status |-> "active", synced |-> FALSE])]
  IN syncEmergencyToCloud(r1, id, online)

\* resolveEmergency (lines 186-202)
resolveEmergency(r, eventId, status) ==
  IF eventId \in 1..Len(r.emergencyEvents)
  THEN [r EXCEPT !.emergencyEvents[eventId].status = status,
                 !.emergencyEvents[eventId].synced = FALSE]
  ELSE r

\* saveRiskEvent (lines 130-154)
saveRiskEvent(r, sessionId, event) ==
  [r EXCEPT !.riskStored = @ \cup {[session |-> sessionId, type |-> event.type,
                                    timestamp |-> event.timestamp]}]

\* EmergencyOverlay's effect on isActive (lines 128-151): the countdown
\* starts when the emergency becomes active, and is reset when it ends
overlayEffect(r, was, t) ==
  IF r.isEmergencyActive = was THEN r
  ELSE IF r.isEmergencyActive
  THEN [r EXCEPT !.timers = @ \cup {[kind |-> "countdown",
                                     due |-> t + COUNTDOWN_SECONDS * 1000, ref |-> 0]},
                 !.activatedAt = <<t>>,
                 !.emergencyRide = r.sessionId]
  ELSE [r EXCEPT !.phase = "countdown",
                 !.timers = {x \in @ : x.kind # "countdown"},
                 !.activatedAt = <<>>,
                 !.emergencyRide = 0]

\* handleRiskEvent (Index.tsx lines 505-534) as rendered with closure c
handleRiskEvent(r, c, event) ==
  LET r1 == [r EXCEPT !.lastHandled = <<[type |-> event.type, timestamp |-> event.timestamp,
                                         epoch |-> r.epoch]>>]
  IN IF c.sessionId # 0 THEN saveRiskEvent(r1, c.sessionId, event) ELSE r1

\* handleEmergency (Index.tsx lines 537-552) as rendered with closure c
handleEmergency(r, c, online, t) ==
  IF c.isEmergencyActive THEN r
  ELSE LET r1 == [r EXCEPT !.isEmergencyActive = TRUE]
           r2 == IF c.sessionId # 0
                 THEN LET saved == saveEmergencyEvent(r1, c.sessionId, online)
                      IN [saved EXCEPT !.emergencyEventId = Len(saved.emergencyEvents)]
                 ELSE r1
       IN overlayEffect(r2, r.isEmergencyActive, t)

\* handleCancelEmergency (lines 555-564) and handleResolveEmergency (lines
\* 567-574) as rendered with emergencyEventId = eventId
endEmergency(r, eventId, status, t) ==
  LET r1 == [r EXCEPT !.isEmergencyActive = FALSE]
      r2 == IF eventId # 0
            THEN [resolveEmergency(r1, eventId, status) EXCEPT !.emergencyEventId = 0]
            ELSE r1
  IN overlayEffect(r2, r.isEmergencyActive, t)

handleCancelEmergency(r, eventId, t) == endEmergency(r, eventId, "false_alarm", t)
handleResolveEmergency(r, eventId, t) == endEmergency(r, eventId, "resolved", t)

\* variant: triggerRiskEvent whose debounce window is shorter by one tick
recentSameEvent_short(r, event, t) ==
  \E e \in r.riskEvents : e.type = event.type /\ t - e.timestamp < DEBOUNCE_MS - 10000

\* the debounce test of triggerRiskEvent (lines 261-265)
recentSameEvent(r, event, t) ==
  \E e \in r.riskEvents : e.type = event.type /\ t - e.timestamp < DEBOUNCE_MS

\* variant: triggerRiskEvent that arms no escalation
armEscalation_never(r, event, t) == r

\* the auto-escalation that triggerRiskEvent arms (lines 275-281)
armEscalation(r, event, t) ==
  IF event.severity = "critical" /\ event.type = "fall_detected"
  THEN [r EXCEPT !.timers = @ \cup {[kind |-> "fall", due |-> t + FALL_ESCALATION_DELAY_MS,
                                     ref |-> event.timestamp]}]
  ELSE r

\* triggerRiskEvent (lines 259-287) at Date.now() = t
triggerRiskEvent(r, event, t) ==
  IF recentSameEvent(r, event, t) THEN [r EXCEPT !.dropped = TRUE]
  ELSE LET r1 == [r EXCEPT !.riskEvents = @ \cup {[type |-> event.type,
                                                   timestamp |-> event.timestamp]},
                           !.owed = IF event.type = "fall_detected"
                                    THEN @ \cup {event.timestamp} ELSE @,
                           !.prevNotified[event.type] = r.lastNotified[event.type],
                           !.lastNotified[event.type] = <<[timestamp |-> t, epoch |-> r.epoch]>>]
           r2 == armEscalation(r1, event, t)
       IN IF r2.onRiskEvent # <<>> THEN handleRiskEvent(r2, r2.onRiskEvent[1], event) ELSE r2

\* startMonitoring once the position has arrived (lines 73-103)
startMonitoring(r) ==
  IF r.isActive THEN r
  ELSE [r EXCEPT !.isActive = TRUE, !.riskEvents = {}, !.epoch = @ + 1]

\* stopMonitoring (lines 110-136)
stopMonitoring(r) == [r EXCEPT !.isActive = FALSE, !.riskEvents = {}, !.epoch = @ + 1]

\* the page and the monitor after construction
NewRide ==
  [isActive |-> FALSE, riskEvents |-> {}, onRiskEvent |-> <<>>, onEmergency |-> <<>>,
   timers |-> {}, starting |-> <<>>,
   isLoading |-> FALSE, isRideActive |-> FALSE, sessionId |-> 0,
   isEmergencyActive |-> FALSE, emergencyEventId |-> 0, phase |-> "countdown",
   rides |-> 0, emergencyEvents |-> <<>>, syncing |-> {},
   epoch |-> 0,
   lastNotified |-> [type \in EventTypes |-> <<>>],
   prevNotified |-> [type \in EventTypes |-> <<>>],
   dropped |-> FALSE, lastHandled |-> <<>>, riskStored |-> {},
   owed |-> {}, lastEscalated |-> <<>>,
   activatedAt |-> <<>>, emergencyRide |-> 0, lastCancel |-> <<>>]

InitRideIdle == ride = NewRide
InitWindowIdle == window = 0

(***************************************************************************)
(* The offline store (part_004)                                             *)
(*                                                                          *)
(* store is a record:                                                       *)
(*   online     navigator.onLine                                            *)
(*   local      the three localStorage lists, each a sequence of records    *)
(*              [id, session, status, synced] (a ride session has no        *)
(*              session field and a risk event no status)                   *)
(*   runs       the syncToCloud runs that await an upsert, in the order of  *)
(*              their start: each [list, data, todo], the list being        *)
(*              synced, the array read from it (with the synced flags set   *)
(*              so far) and the positions still to upsert, the first being  *)
(*              awaited                                                     *)
(*   prio       the events whose syncEmergencyToCloud awaits its upsert     *)
(*   remote     the rows of the three remote tables, [id, payload]          *)
(*   written    per list, the payload last written for the record with id i *)
(*              by a save, end or resolve operation that found the record   *)
(*   current    the ride session of the page that calls the store (0 is     *)
(*              none)                                                       *)
(***************************************************************************)
MaxStoredSessions == 1
MaxStoredRisk == 2
MaxStoredEmergencies == 1
MaxSyncRuns == 2

StoreLists == <<"sessions", "risk", "emergency">>

\* what an upsert sends of a record (the fields other than synced)
Payload(list, rec) == IF list = "risk" THEN "row" ELSE rec.status

\* the position of the record with this id in a list, 0 if absent
\* (findIndex)
findIndex(data, id) ==
  IF \E i \in 1..Len(data) : data[i].id = id
  THEN CHOOSE i \in 1..Len(data) : data[i].id = id /\ \A j \in 1..(i - 1) : data[j].id # id
  ELSE 0

\* the positions of the records not yet synced (filter(x => !x.synced))
Unsynced(data) ==
  SelectSeq([i \in 1..Len(data) |-> i], LAMBDA i : ~data[i].synced)

\* supabase upsert: the row with this id is inserted or replaced
upsert(rows, id, payload) ==
  {x \in rows : x.id # id} \cup {[id |-> id, payload |-> payload]}

\* syncToCloud from list number n on, up to its first await (lines 208-272):
\* a list with nothing unsynced is read and saved back at once
RECURSIVE syncFrom(_, _)
syncFrom(s, n) ==
  IF n > Len(StoreLists) THEN <<>>
  ELSE LET data == s.local[StoreLists[n]]
           todo == Unsynced(data)
       IN IF todo # <<>> THEN <<[list |-> n, data |-> data, todo |-> todo]>>
          ELSE syncFrom(s, n + 1)

\* syncToCloud (lines 205-277) up to its first await
syncToCloud(s) ==
  IF ~s.online THEN s
  ELSE [s EXCEPT !.runs = @ \o syncFrom(s, 1)]

\* a sequence without its k-th element
Without(seq, k) == SubSeq(seq, 1, k - 1) \o SubSeq(seq, k + 1, Len(seq))

\* an upsert awaited by the k-th syncToCloud run returns: { error: null }
\* ("ok"), { error } ("error") or a rejection ("throw"); the run goes on to
\* its next await or to its end
upsertReturns(s, k, outcome) ==
  LET run == s.runs[k]
      list == StoreLists[run.list]
      pos == Head(run.todo)
      rec == run.data[pos]
      data1 == IF outcome = "ok" THEN [run.data EXCEPT ![pos].synced = TRUE] ELSE run.data
      s1 == IF outcome = "ok"
            THEN [s EXCEPT !.remote[list] = upsert(@, rec.id, Payload(list, rec))]
            ELSE s
  IN IF outcome = "throw" THEN [s EXCEPT !.runs = Without(@, k)]
     ELSE IF Tail(run.todo) # <<>>
     THEN [s1 EXCEPT !.runs[k] = [run EXCEPT !.data = data1, !.todo = Tail(run.todo)]]
     ELSE LET s2 == [s1 EXCEPT !.local[list] = data1]
              next == syncFrom(s2, run.list + 1)
          IN IF next = <<>> THEN [s2 EXCEPT !.runs = Without(@, k)]
             ELSE [s2 EXCEPT !.runs[k] = next[1]]

\* syncEmergencyToCloud(event) up to its await (lines 279-291)
storeSyncEmergencyToCloud(s, event) ==
  IF ~s.online THEN s ELSE [s EXCEPT !.prio = @ \cup {event}]

\* the upsert of syncEmergencyToCloud(event) returns (lines 293-302): its
\* result is not looked at
prioReturns(s, event, outcome) ==
  LET s0 == [s EXCEPT !.prio = @ \ {event}]
      s1 == IF outcome = "ok"
            THEN [s0 EXCEPT !.remote.emergency = upsert(@, event.id, event.status)]
            ELSE s0
      events == s1.local.emergency
      idx == findIndex(events, event.id)
  IN IF outcome = "throw" THEN s0
     ELSE IF idx # 0
     THEN [s1 EXCEPT !.local.emergency = [events EXCEPT ![idx] = [event EXCEPT !.synced = TRUE]]]
     ELSE s1

\* startRideSession (lines 78-99)
startRideSession(s) ==
  LET sessionId == Len(s.written.sessions) + 1
      s1 == [s EXCEPT !.local.sessions =
                        Append(@, [id |-> sessionId, status |-> "active", synced |-> FALSE]),
                      !.written.sessions = Append(@, "active")]
  IN syncToCloud(s1)

\* endRideSession (lines 101-128)
endRideSession(s, sessionId) ==
  LET sessionIndex == findIndex(s.local.sessions, sessionId)
  IN IF sessionIndex = 0 THEN s
     ELSE syncToCloud([s EXCEPT !.local.sessions[sessionIndex].status = "completed",
                                !.local.sessions[sessionIndex].synced = FALSE,
                                !.written.sessions[sessionId] = "completed"])

\* saveRiskEvent (lines 131-154) on the store
storeSaveRiskEvent(s, sessionId) ==
  LET id == Len(s.written.risk) + 1
      s1 == [s EXCEPT !.local.risk =
                        Append(@, [id |-> id, session |-> sessionId, synced |-> FALSE]),
                      !.written.risk = Append(@, "row")]
  IN syncToCloud(s1)

\* saveEmergencyEvent (lines 157-184) on the store
storeSaveEmergencyEvent(s, sessionId) ==
  LET eventId == Len(s.written.emergency) + 1
      event == [id |-> eventId, session |-> sessionId, status |-> "active", synced |-> FALSE]
      s1 == [s EXCEPT !.local.emergency = Append(@, event),
                      !.written.emergency = Append(@, "active")]
  IN storeSyncEmergencyToCloud(s1, event)

\* resolveEmergency (lines 186-202) on the store
storeResolveEmergency(s, eventId, status) ==
  LET eventIndex == findIndex(s.local.emergency, eventId)
  IN IF eventIndex = 0 THEN s
     ELSE syncToCloud([s EXCEPT !.local.emergency[eventIndex].status = status,
                                !.local.emergency[eventIndex].synced = FALSE,
                                !.written.emergency[eventId] = status])

\* the store of a fresh installation
NewStore ==
  [online |-> TRUE,
   local |-> [sessions |-> <<>>, risk |-> <<>>, emergency |-> <<>>],
   runs |-> <<>>,
   prio |-> {},
   remote |-> [sessions |-> {}, risk |-> {}, emergency |-> {}],
   written |-> [sessions |-> <<>>, risk |-> <<>>, emergency |-> <<>>],
   current |-> 0]

InitStoreIdle == store = NewStore

(***************************************************************************)
(* locationMemory.ts: recording, the cloud and the cleanup                  *)
(*                                                                          *)
(* A stored entry is [falseAlarmCount, trueAlarmCount, lastTriggered,       *)
(* synced]. memNet is a record:                                             *)
(*   online     navigator.onLine                                            *)
(*   rows       the remote table location_memories of this device: per cell *)
(*              <<>> or <<[false_alarm_count, true_alarm_count,             *)
(*              updated_at]>>                                               *)
(*   uploads    the syncMemoryToCloud calls that await their upsert: each   *)
(*              [cell, memory, rest], the counts of the entry it was given  *)
(*              (what the upsert sends) and the entries that the loop of    *)
(*              syncAllMemories uploads after it                            *)
(*   load       <<>> or the loadMemoriesFromCloud that awaits its select:   *)
(*              <<[data]>>, data being <<>> until the server has answered   *)
(*   lastLoad   how the last loadMemoriesFromCloud ended: [status, lower,   *)
(*              higher], the status being "none", "failed" or "merged", and *)
(*              whether it merged a remote count lower, or higher, than the *)
(*              local one                                                   *)
(*   adjustment <<>> or <<[cell, value]>>, the last result of               *)
(*              getLocationConfidenceAdjustment                             *)
(* The operators below work on p = [mem, net], the stored entries and the   *)
(* record above.                                                            *)
(***************************************************************************)
MaxAlarms == 2
MaxUploads == 2

\* what syncMemoryToCloud sends of an entry (lines 175-183)
Counts(memory) ==
  [falseAlarmCount |-> memory.falseAlarmCount, trueAlarmCount |-> memory.trueAlarmCount]
\* 30 days; the clock of the location memory counts hours, not milliseconds
\* (30 * 24 * 60 * 60 * 1000 exceeds the integers of TLC)
THIRTY_DAYS == 30 * 24

\* syncMemoryToCloud(memory) up to its await (lines 169-183); rest is what
\* the caller's loop does next
syncMemoryToCloud(p, cell, memory, rest) ==
  IF ~p.net.online THEN p
  ELSE [p EXCEPT !.net.uploads = @ \cup {[cell |-> cell, memory |-> Counts(memory),
                                           rest |-> rest]}]

\* the upsert of syncMemoryToCloud returns at time t (lines 185-196), and
\* the loop of syncAllMemories goes on (lines 206-208)
uploadReturns(p, u, outcome, t) ==
  LET p0 == [p EXCEPT !.net.uploads = @ \ {u}]
      p1 == IF outcome # "ok" THEN p0
            ELSE LET sent == [p0 EXCEPT !.net.rows[u.cell] =
                                <<[false_alarm_count |-> u.memory.falseAlarmCount,
                                   true_alarm_count |-> u.memory.trueAlarmCount,
                                   updated_at |-> t]>>]
                 IN IF sent.mem[u.cell] # <<>>
                    THEN [sent EXCEPT !.mem[u.cell][1].synced = TRUE]
                    ELSE sent
  IN IF u.rest = <<>> THEN p1
     ELSE syncMemoryToCloud(p1, u.rest[1].cell, u.rest[1].memory, Tail(u.rest))

\* syncAllMemories (lines 200-209) up to its first await
syncAllMemories(p) ==
  LET unsynced == SelectSeq([c \in 1..MaxCells |-> c],
                            LAMBDA c : p.mem[c] # <<>> /\ ~p.mem[c][1].synced)
      todo == [i \in 1..Len(unsynced) |-> [cell |-> unsynced[i], memory |-> p.mem[unsynced[i]][1]]]
  IN IF ~p.net.online \/ todo = <<>> THEN p
     ELSE syncMemoryToCloud(p, todo[1].cell, todo[1].memory, Tail(todo))

\* recordFalseAlarm (lines 92-117) at Date.now() = t
recordFalseAlarm(p, cell, t) ==
  LET existing == p.mem[cell]
      updated == [falseAlarmCount |-> (IF existing = <<>> THEN 0 ELSE existing[1].falseAlarmCount) + 1,
                  trueAlarmCount |-> IF existing = <<>> THEN 0 ELSE existing[1].trueAlarmCount,
                  lastTriggered |-> t, synced |-> FALSE]
  IN syncMemoryToCloud([p EXCEPT !.mem[cell] = <<updated>>], cell, updated, <<>>)

\* recordTrueAlert (lines 120-144) at Date.now() = t
recordTrueAlert(p, cell, t) ==
  LET existing == p.mem[cell]
      updated == [falseAlarmCount |-> IF existing = <<>> THEN 0 ELSE existing[1].falseAlarmCount,
                  trueAlarmCount |-> (IF existing = <<>> THEN 0 ELSE existing[1].trueAlarmCount) + 1,
                  lastTriggered |-> t, synced |-> FALSE]
  IN syncMemoryToCloud([p EXCEPT !.mem[cell] = <<updated>>], cell, updated, <<>>)

\* loadMemoriesFromCloud up to its await (lines 212-221)
loadMemoriesFromCloud(p) ==
  IF ~p.net.online THEN p ELSE [p EXCEPT !.net.load = <<[data |-> <<>>]>>]

\* variant: a merge that takes the remote count
mergeCount_remote(local, remote) == remote

\* variant: a merge that keeps the local count
mergeCount_local(local, remote) == local

\* the merge of one counter (lines 233-234)
mergeCount(local, remote) == Max(local, remote)

\* the merge of one remote row into the entry of its cell (lines 228-238)
mergeRow(existing, row) ==
  [falseAlarmCount |-> mergeCount(IF existing = <<>> THEN 0 ELSE existing[1].falseAlarmCount,
                                  row.false_alarm_count),
   trueAlarmCount |-> mergeCount(IF existing = <<>> THEN 0 ELSE existing[1].trueAlarmCount,
                                 row.true_alarm_count),
   lastTriggered |-> IF existing # <<>> /\ existing[1].lastTriggered # 0
                     THEN existing[1].lastTriggered ELSE row.updated_at,
   synced |-> TRUE]

\* the select of loadMemoriesFromCloud returns (lines 223-244)
loadReturns(p, outcome) ==
  LET data == p.net.load[1].data
      p0 == [p EXCEPT !.net.load = <<>>, !.net.lastLoad = [status |-> "failed", lower |-> FALSE, higher |-> FALSE]]
      local(c) == IF p.mem[c] = <<>> THEN [falseAlarmCount |-> 0, trueAlarmCount |-> 0]
                  ELSE Counts(p.mem[c][1])
  IN IF outcome # "ok" \/ data = <<>> THEN p0
     ELSE [p0 EXCEPT !.mem = [c \in Cells |->
                                IF data[1][c] = <<>> THEN p.mem[c]
                                ELSE <<mergeRow(p.mem[c], data[1][c][1])>>],
                     !.net.lastLoad =
                        [status |-> "merged",
                         lower |-> \E c \in Cells :
                           /\ data[1][c] # <<>>
                           /\ \/ data[1][c][1].false_alarm_count < local(c).falseAlarmCount
                              \/ data[1][c][1].true_alarm_count < local(c).trueAlarmCount,
                         higher |-> \E c \in Cells :
                           /\ data[1][c] # <<>>
                           /\ \/ data[1][c][1].false_alarm_count > local(c).falseAlarmCount
                              \/ data[1][c][1].true_alarm_count > local(c).trueAlarmCount]]

\* cleanupOldMemories (lines 248-259) at Date.now() = t
cleanupOldMemories(p, t) ==
  [p EXCEPT !.mem = [c \in Cells |->
                       IF p.mem[c] # <<>> /\ p.mem[c][1].lastTriggered < t - THIRTY_DAYS
                       THEN <<>> ELSE p.mem[c]]]

NewMemNet ==
  [online |-> TRUE, rows |-> [c \in Cells |-> <<>>], uploads |-> {}, load |-> <<>>,
   lastLoad |-> [status |-> "none", lower |-> FALSE, higher |-> FALSE], adjustment |-> <<>>]

InitMemNetIdle == memNet = NewMemNet

(***************************************************************************)
(* voiceConfirmation.ts: fuzzyMatch and levenshteinDistance.  A string is   *)
(* the sequence of its characters.                                          *)
(***************************************************************************)
MaxEdits == 2

\* the characters of the inputs: two letters, a capital and the blank
Alphabet == {"a", "b", "A", " "}

\* String.prototype.toLowerCase, character by character
toLowerCase(str) == [i \in 1..Len(str) |-> IF str[i] = "A" THEN "a" ELSE str[i]]

\* String.prototype.trim: the blanks at both ends are removed
RECURSIVE trim(_)
trim(str) ==
  IF str = <<>> THEN str
  ELSE IF Head(str) = " " THEN trim(Tail(str))
  ELSE IF str[Len(str)] = " " THEN trim(SubSeq(str, 1, Len(str) - 1))
  ELSE str

\* str.split(/\s+/) of a trimmed string: its words; [""] for the empty string
RECURSIVE split(_, _, _)
split(str, word, acc) ==
  IF str = <<>> THEN Append(acc, word)
  ELSE IF Head(str) = " "
  THEN split(Tail(str), <<>>, IF word = <<>> THEN acc ELSE Append(acc, word))
  ELSE split(Tail(str), Append(word, Head(str)), acc)

\* String.prototype.includes
includes(str, part) ==
  \E i \in 0..(Len(str) - Len(part)) : SubSeq(str, i + 1, i + Len(part)) = part

\* row i of the matrix of levenshteinDistance (lines 115-127), built from
\* row i - 1: row[j + 1] is matrix[i][j]
RECURSIVE matrixRow(_, _, _, _)
matrixRow(prev, a, ch, row) ==
  LET j == Len(row) IN
  IF j > Len(a) THEN row
  ELSE matrixRow(prev, a, ch,
         Append(row, IF ch = a[j]
                     THEN prev[j]
                     ELSE Min(prev[j] + 1, Min(row[j] + 1, prev[j + 1] + 1))))

RECURSIVE matrixFrom(_, _, _, _)
matrixFrom(prev, a, b, i) ==
  IF i > Len(b) THEN prev
  ELSE matrixFrom(matrixRow(prev, a, b[i], <<i>>), a, b, i + 1)

\* levenshteinDistance (lines 102-131)
levenshteinDistance(a, b) ==
  IF Len(a) = 0 THEN Len(b)
  ELSE IF Len(b) = 0 THEN Len(a)
  ELSE matrixFrom([j \in 1..(Len(a) + 1) |-> j - 1], a, b, 1)[Len(a) + 1]

\* variant: one keyword, with two character differences allowed
matchesKeyword_within2(normalized, keyword) ==
  \/ normalized = keyword
  \/ Len(keyword) <= 4 /\ includes(normalized, keyword)
  \/ Len(keyword) > 4 /\ levenshteinDistance(normalized, keyword) <= 2
  \/ LET words == split(normalized, <<>>, <<>>)
     IN \E n \in 1..Len(words) :
          words[n] = keyword \/ levenshteinDistance(words[n], keyword) <= 2

\* the body of the loop of fuzzyMatch (lines 81-96) for one keyword
matchesKeyword(normalized, keyword) ==
  \/ normalized = keyword
  \/ Len(keyword) <= 4 /\ includes(normalized, keyword)
  \/ Len(keyword) > 4 /\ levenshteinDistance(normalized, keyword) <= 1
  \/ LET words == split(normalized, <<>>, <<>>)
     IN \E n \in 1..Len(words) :
          words[n] = keyword \/ levenshteinDistance(words[n], keyword) <= 1

\* fuzzyMatch (lines 77-99)
fuzzyMatch(input, keywords) ==
  LET normalized == trim(toLowerCase(input))
  IN \E k \in 1..Len(keywords) : matchesKeyword(normalized, keywords[k])

\* the strings one insertion, deletion or substitution away from str, and
\* str itself
Edits(str) ==
  {str}
  \cup {SubSeq(str, 1, i) \o <<c>> \o SubSeq(str, i + 1, Len(str)) :
          i \in 0..Len(str), c \in Alphabet}
  \cup {SubSeq(str, 1, i - 1) \o SubSeq(str, i + 1, Len(str)) : i \in 1..Len(str)}
  \cup {[str EXCEPT ![i] = c] : i \in 1..Len(str), c \in Alphabet}

\* the strings at most n edits away from str
RECURSIVE Within(_, _)
Within(str, n) ==
  IF n = 0 THEN {str} ELSE UNION {Edits(t) : t \in Within(str, n - 1)}

\* the number of edits between a keyword and a string at most MaxEdits away
EditDistance(keyword, str) ==
  CHOOSE n \in 0..MaxEdits :
    str \in Within(keyword, n) /\ \A m \in 0..(n - 1) : str \notin Within(keyword, m)

\* keywords as the lexicons have them: lower case, no blank at either end;
\* longer than 4 characters, with and without a blank inside, and a short one
KeywordCases ==
  {<<"a", "b", "b", "a", "b">>,
   <<"a", "b", " ", "b", "a", "a">>,
   <<"b", "a">>}

NewFuzzy == [input |-> <<>>, keyword |-> <<>>, distance |-> 0, result |-> <<>>]
InitFuzzyIdle == fuzzy = NewFuzzy

(***************************************************************************)
(* fatigueDetection.ts: the FatigueDetector singleton.  Its clock counts    *)
(* seconds.  The variances and the parts of the score are rationals, kept   *)
(* as reduced fractions [n, d] with d > 0.                                  *)
(*                                                                          *)
(* fatigue is a record: the fields of FatigueState, and                     *)
(*   checkInterval  <<>> or the time at which the interval timer is due     *)
(*   ticks     the number of interval callbacks that ran                    *)
(*   sessions  the number of startMonitoring calls that started a session   *)
(*   spoken    the nudges spoken in this session: [time, band, tick]        *)
(*   vibrated  the number of vibrateAlert calls in this session             *)
(*   fed       the number of sensor samples handled since the initial state *)
(*   slept     the number of times the device was suspended                 *)
(***************************************************************************)
RECURSIVE Gcd(_, _)
Gcd(a, b) == IF b = 0 THEN a ELSE Gcd(b, a % b)

Abs(x) == IF x < 0 THEN -x ELSE x

\* the reduced fraction p / q, for q > 0
Frac(p, q) == LET g == Gcd(Abs(p), q) IN [n |-> p \div g, d |-> q \div g]
Whole(k) == [n |-> k, d |-> 1]
FAdd(x, y) == Frac(x.n * y.d + y.n * x.d, x.d * y.d)
FSub(x, y) == Frac(x.n * y.d - y.n * x.d, x.d * y.d)
FTimes(x, k) == Frac(x.n * k, x.d)
FOver(x, k) == Frac(x.n, x.d * k)
FLess(x, y) == x.n * y.d < y.n * x.d
FMin(x, y) == IF FLess(y, x) THEN y ELSE x
FMax(x, y) == IF FLess(x, y) THEN y ELSE x

RECURSIVE SumOf(_)
SumOf(data) == IF data = <<>> THEN 0 ELSE Head(data) + SumOf(Tail(data))

\* the mean of the squared deviations from the mean (the two reduce calls)
Variance(data) ==
  LET n == Len(data)
      squares == [i \in 1..n |-> data[i] * data[i]]
  IN Frac(n * SumOf(squares) - SumOf(data) * SumOf(data), n * n)

\* push, then shift when the buffer is longer than its limit
pushSample(data, sample, limit) ==
  LET pushed == Append(data, sample)
  IN IF Len(pushed) > limit THEN Tail(pushed) ELSE pushed

FATIGUE_NUDGE_INTERVAL == 5 * 60
MILD_FATIGUE_THRESHOLD == 30
MODERATE_FATIGUE_THRESHOLD == 50
SEVERE_FATIGUE_THRESHOLD == 70
PANIC_THRESHOLD == 60
CHECK_INTERVAL == 30

\* the initial state of the detector (lines 86-100)
NewFatigue ==
  [isMonitoring |-> FALSE, rideStartTime |-> 0, timeOnRide |-> Whole(0),
   accelerometerVariance |-> Whole(0), gyroscopeStability |-> Whole(100),
   gpsVariance |-> Whole(0), ambientTemp |-> <<>>,
   fatigueScore |-> 0, panicScore |-> 0,
   recentAccelData |-> <<>>, recentGyroData |-> <<>>, recentSpeedData |-> <<>>,
   lastNudgeTime |-> 0,
   checkInterval |-> <<>>, ticks |-> 0, sessions |-> 0, spoken |-> <<>>,
   vibrated |-> 0, fed |-> 0, slept |-> 0]

InitFatigueIdle == fatigue = NewFatigue

\* startMonitoring (lines 113-146) at Date.now() = t
fatigueStartMonitoring(f, t) ==
  IF f.isMonitoring THEN f
  ELSE [f EXCEPT !.isMonitoring = TRUE, !.rideStartTime = t, !.timeOnRide = Whole(0),
                 !.fatigueScore = 0, !.panicScore = 0,
                 !.recentAccelData = <<>>, !.recentGyroData = <<>>,
                 !.recentSpeedData = <<>>, !.lastNudgeTime = 0,
                 !.checkInterval = <<t + CHECK_INTERVAL>>,
                 !.sessions = @ + 1, !.spoken = <<>>, !.vibrated = 0]

\* stopMonitoring (lines 148-168)
fatigueStopMonitoring(f) == [f EXCEPT !.checkInterval = <<>>, !.isMonitoring = FALSE]

\* handleMotion (lines 170-194): acc is <<>> (no reading) or <<magnitude>>
handleMotion(f, acc) ==
  IF acc = <<>> THEN f
  ELSE LET data == pushSample(f.recentAccelData, acc[1], 60)
       IN [f EXCEPT !.recentAccelData = data,
                    !.accelerometerVariance =
                       IF Len(data) >= 10 THEN FMin(Whole(10), Variance(data)) ELSE @]

\* handleOrientation (lines 196-215): combined is |beta| + |gamma|
handleOrientation(f, combined) ==
  LET data == pushSample(f.recentGyroData, combined, 60)
  IN [f EXCEPT !.recentGyroData = data,
               !.gyroscopeStability =
                  IF Len(data) >= 10
                  THEN FMax(Whole(0), FSub(Whole(100), Variance(data))) ELSE @]

\* updateGPSData (lines 217-230)
updateGPSData(f, speed) ==
  LET data == pushSample(f.recentSpeedData, speed, 30)
  IN [f EXCEPT !.recentSpeedData = data,
               !.gpsVariance =
                  IF Len(data) >= 5 THEN FMin(Whole(100), Variance(data)) ELSE @]

\* updateTemperature (lines 232-234)
updateTemperature(f, temp) == [f EXCEPT !.ambientTemp = <<temp>>]

\* this.state.ambientTemp && this.state.ambientTemp > k
TempAbove(f, k) == f.ambientTemp # <<>> /\ f.ambientTemp[1] > k

\* variant: the heat part taken at any known temperature, not only above 35
fatigueSum_anyTemp(f, timeScore) ==
  FAdd(FAdd(timeScore, FMin(Whole(25), FTimes(f.accelerometerVariance, 3))),
       FAdd(FMin(Whole(20), FOver(FSub(Whole(100), f.gyroscopeStability), 5)),
            IF f.ambientTemp # <<>>
            THEN FMin(Whole(15), Whole((f.ambientTemp[1] - 35) * 3)) ELSE Whole(0)))

\* timeScore + accelScore + gyroScore + heatScore (lines 240-260)
fatigueSum(f, timeScore) ==
  FAdd(FAdd(timeScore, FMin(Whole(25), FTimes(f.accelerometerVariance, 3))),
       FAdd(FMin(Whole(20), FOver(FSub(Whole(100), f.gyroscopeStability), 5)),
            IF TempAbove(f, 35)
            THEN FMin(Whole(15), Whole((f.ambientTemp[1] - 35) * 3)) ELSE Whole(0)))

\* Math.min(100, score)
capScore(score) == Min(100, score)

\* const timeScore (lines 241-245), of the minutes on the ride
timeScoreOf(timeOnRide) ==
  IF FLess(Whole(90), timeOnRide)
  THEN FMin(Whole(40), FOver(FSub(timeOnRide, Whole(90)), 2))
  ELSE IF FLess(Whole(60), timeOnRide) THEN Whole(15)
  ELSE FOver(timeOnRide, 6)

\* updateFatigueScore (lines 236-275) at Date.now() = t
updateFatigueScore(f, t) ==
  LET timeOnRide == Frac(t - f.rideStartTime, 60)
      timeScore == timeScoreOf(timeOnRide)
      sum == fatigueSum(f, timeScore)
      panicScore == (IF FLess(Whole(5), f.accelerometerVariance) THEN 30 ELSE 0)
                    + (IF FLess(f.gyroscopeStability, Whole(50)) THEN 30 ELSE 0)
                    + (IF FLess(Whole(50), f.gpsVariance) THEN 20 ELSE 0)
                    + (IF TempAbove(f, 40) THEN 20 ELSE 0)
  IN [f EXCEPT !.timeOnRide = timeOnRide,
               !.fatigueScore = capScore(MathRound(sum.n, sum.d)),
               !.panicScore = capScore(panicScore)]

\* speakCustom(nudge), vibrateAlert() when asked, lastNudgeTime = now
nudge(f, band, vibrate, t) ==
  [f EXCEPT !.spoken = Append(@, [time |-> t, band |-> band, tick |-> f.ticks]),
            !.vibrated = IF vibrate THEN @ + 1 ELSE @,
            !.lastNudgeTime = t]

\* variant: checkAndNudge without the nudge interval
checkAndNudge_noInterval(f, t) ==
  IF f.panicScore >= PANIC_THRESHOLD THEN nudge(f, "severe", TRUE, t)
  ELSE IF f.fatigueScore >= SEVERE_FATIGUE_THRESHOLD THEN nudge(f, "severe", TRUE, t)
  ELSE IF f.fatigueScore >= MODERATE_FATIGUE_THRESHOLD THEN nudge(f, "moderate", TRUE, t)
  ELSE IF f.fatigueScore >= MILD_FATIGUE_THRESHOLD THEN nudge(f, "mild", FALSE, t)
  ELSE f

\* checkAndNudge (lines 277-317) at Date.now() = t
checkAndNudge(f, t) ==
  IF t - f.lastNudgeTime < FATIGUE_NUDGE_INTERVAL THEN f
  ELSE IF f.panicScore >= PANIC_THRESHOLD THEN nudge(f, "severe", TRUE, t)
  ELSE IF f.fatigueScore >= SEVERE_FATIGUE_THRESHOLD THEN nudge(f, "severe", TRUE, t)
  ELSE IF f.fatigueScore >= MODERATE_FATIGUE_THRESHOLD THEN nudge(f, "moderate", TRUE, t)
  ELSE IF f.fatigueScore >= MILD_FATIGUE_THRESHOLD THEN nudge(f, "mild", FALSE, t)
  ELSE f

\* the callback of the interval timer (lines 142-145) at Date.now() = t
intervalCallback(f, t) ==
  checkAndNudge(updateFatigueScore([f EXCEPT !.ticks = @ + 1], t), t)

(***************************************************************************)
(* components/RideStatus.tsx (EmergencyOverlay), tick by tick. The model of *)
(* the ride takes the countdown as one delay of COUNTDOWN_SECONDS; here the *)
(* component's own state is followed through every run of its interval.     *)
(*                                                                          *)
(* overlay is a record:                                                     *)
(*   isActive      the prop (the page's isEmergencyActive)                  *)
(*   countdown, phase   the component's state                               *)
(*   interval      <<>> or the time at which the interval of the effect     *)
(*                 runs next                                                *)
(*   resolves      the due times of the pending timers of handleImOkay      *)
(*   activations   number of times isActive has become true                 *)
(*   activatedAt   <<>> or the time at which isActive last became true      *)
(*   ticks         runs of the interval since then                          *)
(*   announced, helpComing, cancelledSpoken   calls of                      *)
(*                 speak('emergency_triggered'), speak('help_coming') and   *)
(*                 speak('emergency_cancelled') since then                  *)
(***************************************************************************)
INTERVAL_MS == 1000

NewOverlay ==
  [isActive |-> FALSE, countdown |-> COUNTDOWN_SECONDS, phase |-> "countdown",
   interval |-> <<>>, resolves |-> {}, activations |-> 0, activatedAt |-> <<>>,
   ticks |-> 0, announced |-> 0, helpComing |-> 0, cancelledSpoken |-> 0]

InitOverlayIdle == overlay = NewOverlay

\* the effect on [isActive] (lines 128-151) at time t: the cleanup of the
\* previous run clears its interval, then the body runs
overlayOnIsActive(o, t) ==
  IF ~o.isActive
  THEN [o EXCEPT !.interval = <<>>,
                 !.countdown = COUNTDOWN_SECONDS,
                 !.phase = "countdown"]
  ELSE [o EXCEPT !.interval = <<t + INTERVAL_MS>>,
                 !.announced = 1,
                 !.helpComing = 0,
                 !.cancelledSpoken = 0,
                 !.ticks = 0,
                 !.activatedAt = <<t>>,
                 !.activations = @ + 1]

\* the page sets isEmergencyActive (Index.tsx handleEmergency,
\* handleCancelEmergency, handleResolveEmergency): the component renders
\* again and its effect runs when the prop has changed
setIsEmergencyActive(o, flag, t) ==
  IF o.isActive = flag THEN o ELSE overlayOnIsActive([o EXCEPT !.isActive = flag], t)

\* variant: the interval's callback counting down to below 0
overlayInterval_pastZero(o) ==
  IF o.countdown <= 0
  THEN [o EXCEPT !.phase = "active", !.interval = <<>>,
                 !.helpComing = @ + 1, !.countdown = 0, !.ticks = @ + 1]
  ELSE [o EXCEPT !.countdown = @ - 1, !.interval = <<@[1] + INTERVAL_MS>>,
                 !.ticks = @ + 1]

\* the interval's callback (lines 138-148)
overlayInterval(o) ==
  IF o.countdown <= 1
  THEN [o EXCEPT !.phase = "active", !.interval = <<>>,
                 !.helpComing = @ + 1, !.countdown = 0, !.ticks = @ + 1]
  ELSE [o EXCEPT !.countdown = @ - 1, !.interval = <<@[1] + INTERVAL_MS>>,
                 !.ticks = @ + 1]

\* handleCancel (lines 153-156) with the page's handleCancelEmergency as
\* onCancel
overlayHandleCancel(o, t) ==
  setIsEmergencyActive([o EXCEPT !.cancelledSpoken = @ + 1], FALSE, t)

\* handleImOkay (lines 158-163)
overlayHandleImOkay(o, t) ==
  [o EXCEPT !.phase = "resolved", !.resolves = @ \cup {t + RESOLVE_DELAY_MS}]

\* the timer of handleImOkay runs onResolve, the page's
\* handleResolveEmergency
overlayOnResolve(o, due, t) ==
  setIsEmergencyActive([o EXCEPT !.resolves = @ \ {due}], FALSE, t)

(***************************************************************************)
(* rideMonitor.ts (RideMonitor): the position watch and the idle check.     *)
(*                                                                          *)
(* tracker is a record:                                                     *)
(*   isActive, idleTime, riskEvents   RideMonitor.state (riskEvents as the  *)
(*                 set of its [type, timestamp] entries)                    *)
(*   lastUpdateTime   RideMonitor.lastUpdateTime                            *)
(*   idleCheckInterval   <<>> or the time at which the interval of          *)
(*                 startMonitoring runs next                                *)
(*   lastMoved     <<>> or the time of the last position sample whose speed *)
(*                 was above 2 km/h, the start of the ride if there was     *)
(*                 none                                                     *)
(*   lastCheck     <<>> or what the last run of checkIdle saw: the idle     *)
(*                 accumulator, the time since lastMoved, whether the       *)
(*                 debounce held a long_idle back and whether one was       *)
(*                 accepted                                                 *)
(*   checks, samples   runs of checkIdle and of handlePositionUpdate since  *)
(*                 the start of the ride                                    *)
(*   rides         rides started                                            *)
(***************************************************************************)
IDLE_WARNING_MS == 5 * 60 * 1000
IDLE_CHECK_MS == 30000
MOVING_KMH == 2

NewTracker ==
  [isActive |-> FALSE, idleTime |-> 0, riskEvents |-> {}, lastUpdateTime |-> 0,
   idleCheckInterval |-> <<>>, lastMoved |-> <<>>, lastCheck |-> <<>>, checks |-> 0,
   samples |-> 0, rides |-> 0]

InitTrackerIdle == tracker = NewTracker

\* startMonitoring once the first position has arrived (lines 59-108), at
\* Date.now() = t
trackerStartMonitoring(m, t) ==
  IF m.isActive THEN m
  ELSE [m EXCEPT !.isActive = TRUE, !.idleTime = 0, !.riskEvents = {},
                 !.lastUpdateTime = t,
                 !.idleCheckInterval = <<t + IDLE_CHECK_MS>>,
                 !.lastMoved = <<t>>, !.lastCheck = <<>>, !.checks = 0,
                 !.samples = 0, !.rides = @ + 1]

\* stopMonitoring (lines 110-136)
trackerStopMonitoring(m) ==
  [m EXCEPT !.isActive = FALSE, !.idleTime = 0, !.riskEvents = {},
            !.idleCheckInterval = <<>>, !.lastMoved = <<>>, !.lastCheck = <<>>,
            !.checks = 0, !.samples = 0]

\* handlePositionUpdate (lines 138-187) at Date.now() = t, for a position
\* that lies speedKmh * timeDelta away from the last one
handlePositionUpdate(m, speedKmh, t) ==
  LET timeDelta == t - m.lastUpdateTime
      m1 == IF timeDelta > 0 /\ speedKmh > MOVING_KMH
            THEN [m EXCEPT !.idleTime = 0, !.lastMoved = <<t>>]
            ELSE m
  IN [m1 EXCEPT !.lastUpdateTime = t, !.samples = @ + 1]

\* checkIdle (lines 194-213) at Date.now() = t, with the debounce of
\* triggerRiskEvent
checkIdle(m, t) ==
  IF ~m.isActive THEN m
  ELSE LET idleTime == m.idleTime + (t - m.lastUpdateTime)
           event == [type |-> "long_idle", severity |-> "high", timestamp |-> t]
           over == idleTime > IDLE_WARNING_MS
           debounced == over /\ recentSameEvent(m, event, t)
       IN [m EXCEPT !.idleTime = idleTime,
                    !.riskEvents = IF over /\ ~debounced
                                   THEN @ \cup {[type |-> event.type, timestamp |-> t]}
                                   ELSE @,
                    !.lastCheck = <<[idleTime |-> idleTime, elapsed |-> t - m.lastMoved[1],
                                     debounced |-> debounced, raised |-> over /\ ~debounced]>>,
                    !.checks = @ + 1]

(***************************************************************************)
(* The callers and the environment of the listener                          *)
(***************************************************************************)
VoiceTickMs == LISTEN_DELAY_MS
VoiceHorizon == 2

\* callers arrive during the observed window
InVoiceWindow == now < window * VoiceTickMs

\* a timer whose time has come runs before the clock moves on
TimerDue == \E x \in voice.timers \cup voice.reports : x.due <= now

\* the cell of the event that the confirmation is about
EventCell == 1

\* what the overlay's owner does with a terminal outcome: 'ok' is recorded
\* as a false alarm at the event's cell, 'danger' as a true alert and the
\* emergency is raised; 'timeout' and 'cancelled' record nothing
onConfirmationOutcome(q, result, online, t) ==
  LET p == [mem |-> q.mem, net |-> q.net]
  IN IF result = "ok"
     THEN LET p1 == recordFalseAlarm(p, EventCell, t)
          IN [mem |-> p1.mem, net |-> p1.net, ride |-> q.ride]
     ELSE IF result = "danger"
     THEN LET p1 == recordTrueAlert(p, EventCell, t)
          IN [mem |-> p1.mem, net |-> p1.net,
              ride |-> handleEmergency(q.ride, Closure(q.ride), online, t)]
     ELSE q

\* a caller starts a confirmation (VoiceConfirmationOverlay's effect,
\* requestVoiceConfirmation)
VoiceStart ==
  /\ voice.started < MaxSessions
  /\ InVoiceWindow
  /\ \E timeoutMs \in TimeoutCases : voice' = start(voice, timeoutMs, now)
  /\ UNCHANGED <<scIn, scOut, decision, memories, now, ride, window, store, memNet, fuzzy, fatigue, overlay, tracker>>

\* the caller calls stop() (the effect's cleanup, the overlay's handleCancel)
VoiceStop ==
  /\ voice.started > 0
  /\ voice' = [stop(voice) EXCEPT
        !.restopped = @ \/ voice.started \in voice.stopped,
        !.stopped = @ \cup {voice.started}]
  /\ UNCHANGED <<scIn, scOut, decision, memories, now, ride, window, store, memNet, fuzzy, fatigue, overlay, tracker>>

\* the caller calls cancel()
VoiceCancel ==
  /\ voice.started > 0
  /\ voice' = cancel(voice, now)
  /\ UNCHANGED <<scIn, scOut, decision, memories, now, ride, window, store, memNet, fuzzy, fatigue, overlay, tracker>>

\* the deadline timer of start() fires: handleResult('timeout')
DeadlineFires ==
  /\ \E x \in voice.timers :
        /\ x.kind = "deadline" /\ x.due <= now
        /\ voice' = handleResult([voice EXCEPT !.timers = @ \ {x}], "timeout",
                                IF x.session = voice.started THEN "deadline" ELSE "stale deadline",
                                now)
  /\ UNCHANGED <<scIn, scOut, decision, memories, now, ride, window, store, memNet, fuzzy, fatigue, overlay, tracker>>

\* the delayed-listen timer of start() fires: recognition.start()
ListenTimerFires ==
  /\ \E x \in voice.timers :
        /\ x.kind = "listen" /\ x.due <= now
        /\ voice' = recognitionStart([voice EXCEPT !.timers = @ \ {x}])
  /\ UNCHANGED <<scIn, scOut, decision, memories, now, ride, window, store, memNet, fuzzy, fatigue, overlay, tracker>>

\* the engine fires 'start'
EngineStartEvent ==
  /\ voice.engine = "starting"
  /\ voice' = onstart([voice EXCEPT !.engine = "running"])
  /\ UNCHANGED <<scIn, scOut, decision, memories, now, ride, window, store, memNet, fuzzy, fatigue, overlay, tracker>>

\* the engine fires 'result' with the alternatives of one result; after
\* stop() it may still deliver what it captured
EngineResultEvent ==
  /\ voice.engine \in {"running", "stopping"}
  /\ \E n \in 1..MaxTranscripts : \E texts \in [1..n -> Transcripts] :
        voice' = onresult(voice, texts, now)
  /\ UNCHANGED <<scIn, scOut, decision, memories, now, ride, window, store, memNet, fuzzy, fatigue, overlay, tracker>>

\* the engine fires 'error'; 'end' follows
EngineErrorEvent ==
  /\ voice.engine \in {"starting", "running"}
  /\ \E error \in EngineErrors :
        voice' = onerror([voice EXCEPT !.engine = "errored"], error, now)
  /\ UNCHANGED <<scIn, scOut, decision, memories, now, ride, window, store, memNet, fuzzy, fatigue, overlay, tracker>>

\* the engine fires 'end'
EngineEndEvent ==
  /\ voice.engine \in {"running", "stopping", "errored"}
  /\ voice' = onend([voice EXCEPT !.engine = "idle"])
  /\ UNCHANGED <<scIn, scOut, decision, memories, now, ride, window, store, memNet, fuzzy, fatigue, overlay, tracker>>

\* the overlay's delay has passed: the result goes to the overlay's owner
\* (VoiceConfirmationOverlay lines 44-46)
ReportFires ==
  /\ \E x \in voice.reports : \E online \in BOOLEAN :
       /\ x.due <= now
       /\ LET q == onConfirmationOutcome([mem |-> memories, net |-> memNet, ride |-> ride],
                                         x.result, online, now)
          IN /\ memories' = q.mem /\ memNet' = q.net /\ ride' = q.ride
             /\ voice' = [voice EXCEPT !.reports = @ \ {x}]
  /\ UNCHANGED <<scIn, scOut, decision, now, window, store, fuzzy, fatigue, overlay, tracker>>

\* the due time of the earliest pending timer
NextDue ==
  CHOOSE d \in {x.due : x \in voice.timers \cup voice.reports} :
    \A x \in voice.timers \cup voice.reports : d <= x.due

\* time passes: in steps while callers may still arrive, and afterwards
\* straight to the next pending timer
VoiceTick ==
  /\ ~TimerDue
  /\ InVoiceWindow \/ voice.timers \cup voice.reports # {}
  /\ now' = IF ~InVoiceWindow THEN NextDue
            ELSE IF voice.reports # {} THEN Min(now + VoiceTickMs, NextDue)
            ELSE now + VoiceTickMs
  /\ UNCHANGED <<scIn, scOut, decision, memories, voice, ride, window, store, memNet, fuzzy, fatigue, overlay, tracker>>

InitVoiceIdle == voice = NewListener(TRUE)
InitScoreIdle == scIn = <<>> /\ scOut = <<>> /\ decision = <<>>

InitVoice ==
  /\ InitFuzzyIdle
  /\ InitFatigueIdle
  /\ InitOverlayIdle
  /\ InitTrackerIdle
  /\ InitScoreIdle
  /\ InitRideIdle
  /\ InitStoreIdle
  /\ InitMemNetIdle
  /\ window = VoiceHorizon
  /\ memories = [c \in Cells |-> <<>>]
  /\ now = 0
  /\ \E hasRecognition \in BOOLEAN : voice = NewListener(hasRecognition)

NextVoice ==
  \/ VoiceStart \/ VoiceStop \/ VoiceCancel
  \/ DeadlineFires \/ ListenTimerFires \/ ReportFires
  \/ EngineStartEvent \/ EngineResultEvent \/ EngineErrorEvent \/ EngineEndEvent
  \/ VoiceTick

SpecVoice == InitVoice /\ [][NextVoice]_vars

(***************************************************************************)
(* One call of the scorer: Score applies calculateConfidence to the         *)
(* arguments drawn by the initial state, Decide applies getConfidenceAction *)
(* and shouldAutoTriggerEmergency to a scored event.                        *)
(***************************************************************************)
MaxRecent == 3
MaxCount == 3

ScoreTypes == {"fall_detected", "sudden_stop", "speed_warning", "heat_warning", "long_idle"}
ScoreEventTime == 100 * 1000
IntensityCases == {<<>>, <<-50>>, <<1000>>}
SpeedCases == {0, 6, 21, 41}
HourCases == {12, 20, 23}
RideAgeCases == {30 * 1000, 180 * 1000}

\* history entries: the type of the event or another one; before the 30 s
\* window, inside it, or later than the event
RecentEntries(type) ==
  [type : {type},
   timestamp : {ScoreEventTime - 40000, ScoreEventTime - 10000, ScoreEventTime + 10000}]
  \cup {[type |-> "unsafe_zone", timestamp |-> ScoreEventTime - 10000]}

\* histories are chronological: triggerRiskEvent pushes events as they occur
Chronological(s) == \A i \in 1..(Len(s) - 1) : s[i].timestamp <= s[i + 1].timestamp

RecentCases(type) ==
  UNION {{s \in [1..n -> RecentEntries(type)] : Chronological(s)} : n \in 0..MaxRecent}

\* stored memories of the scored cell: none, a cell with few events, a cell
\* with false alarms only, and the cell with 8 false and 2 true alarms
MemoryCases ==
  {<<>>,
   <<[falseAlarmCount |-> 1, trueAlarmCount |-> 1]>>,
   <<[falseAlarmCount |-> MaxCount, trueAlarmCount |-> 0]>>,
   <<[falseAlarmCount |-> 8, trueAlarmCount |-> 2]>>}

ScoreEvents ==
  [type : ScoreTypes, severity : Severities, timestamp : {ScoreEventTime}, cell : {0, 1}]

\* Date.now() when the scorer runs: the event's timestamp, or later, with the
\* history holding what the detector has accepted by then
ScoreTimes == {ScoreEventTime, ScoreEventTime + 10000}

ScoreContexts(event) ==
  {c \in [currentSpeed : SpeedCases,
          rideStartTime : {ScoreEventTime - a : a \in RideAgeCases},
          now : ScoreTimes,
          hour : HourCases,
          recentEvents : RecentCases(event.type),
          sensorIntensity : IntensityCases] :
     \A i \in 1..Len(c.recentEvents) : c.recentEvents[i].timestamp <= c.now}

InitMemIdle == memories = [c \in Cells |-> <<>>]

InitScore ==
  /\ InitFuzzyIdle
  /\ InitFatigueIdle
  /\ InitOverlayIdle
  /\ InitTrackerIdle
  /\ \E event \in ScoreEvents : \E context \in ScoreContexts(event) :
        scIn = <<[event |-> event, context |-> context]>>
  /\ scOut = <<>>
  /\ decision = <<>>
  /\ now = ScoreEventTime
  /\ InitVoiceIdle
  /\ InitRideIdle
  /\ InitStoreIdle
  /\ InitMemNetIdle
  /\ InitWindowIdle
  /\ \E m \in MemoryCases : memories = [c \in Cells |-> m]
  /\ (scIn[1].event.cell = 0 => memories[1] = <<>>)

Score ==
  /\ scIn # <<>>
  /\ scOut = <<>>
  /\ scOut' = <<calculateConfidence(scIn[1].event, scIn[1].context)>>
  /\ UNCHANGED <<scIn, decision, memories, now, voice, ride, window, store, memNet, fuzzy, fatigue, overlay, tracker>>

Decide ==
  /\ scOut # <<>>
  /\ decision = <<>>
  /\ decision' = <<[action |-> getConfidenceAction(scOut[1].confidence),
                    auto |-> shouldAutoTriggerEmergency(scOut[1])]>>
  /\ UNCHANGED <<scIn, scOut, memories, now, voice, ride, window, store, memNet, fuzzy, fatigue, overlay, tracker>>

NextScore == Score \/ Decide

SpecScore == InitScore /\ [][NextScore]_vars

(***************************************************************************)
(* The scorer on the detector's history: recentEvents is the riskEvents of  *)
(* the current ride, which triggerRiskEvent debounces by type, and holds    *)
(* the scored event itself. The scorer runs when the event is accepted, or  *)
(* later, on the history as it is by then.                                  *)
(***************************************************************************)
\* the accepted events of the ride around the scored one: the type of the
\* event or another one; a debounce window earlier, the event itself, a
\* debounce window later
DetectorEntries(type) ==
  [type : {type, "unsafe_zone"},
   timestamp : {ScoreEventTime - DEBOUNCE_MS, ScoreEventTime, ScoreEventTime + DEBOUNCE_MS}]

\* what the debounce of triggerRiskEvent (lines 261-265) leaves in riskEvents
Debounced(s) ==
  \A i, j \in 1..Len(s) :
    (i < j /\ s[i].type = s[j].type) => s[j].timestamp - s[i].timestamp >= DEBOUNCE_MS

DetectorHistories(event) ==
  {s \in UNION {[1..n -> DetectorEntries(event.type)] : n \in 1..MaxRecent} :
     /\ Chronological(s)
     /\ Debounced(s)
     /\ \E i \in 1..Len(s) : s[i] = [type |-> event.type, timestamp |-> event.timestamp]}

DetectorContexts(event) ==
  {c \in [currentSpeed : SpeedCases,
          rideStartTime : {ScoreEventTime - DEBOUNCE_MS - a : a \in RideAgeCases},
          now : {ScoreEventTime, ScoreEventTime + DEBOUNCE_MS},
          hour : HourCases,
          recentEvents : DetectorHistories(event),
          sensorIntensity : IntensityCases] :
     \A i \in 1..Len(c.recentEvents) : c.recentEvents[i].timestamp <= c.now}

InitDetectorScore ==
  /\ InitFuzzyIdle
  /\ InitFatigueIdle
  /\ InitOverlayIdle
  /\ InitTrackerIdle
  /\ InitVoiceIdle
  /\ InitRideIdle
  /\ InitStoreIdle
  /\ InitMemNetIdle
  /\ InitWindowIdle
  /\ \E event \in ScoreEvents : \E context \in DetectorContexts(event) :
        scIn = <<[event |-> event, context |-> context]>>
  /\ scOut = <<>>
  /\ decision = <<>>
  /\ now = ScoreEventTime
  /\ \E m \in MemoryCases : memories = [c \in Cells |-> m]
  /\ (scIn[1].event.cell = 0 => memories[1] = <<>>)

SpecDetectorScore == InitDetectorScore /\ [][NextScore]_vars

\* a ScoredRiskEvent handed straight to the two decision functions
InitAction ==
  /\ InitFuzzyIdle
  /\ InitFatigueIdle
  /\ InitOverlayIdle
  /\ InitTrackerIdle
  /\ scIn = <<>>
  /\ scOut \in {<<e>> : e \in [type : EventTypes, severity : Severities, confidence : 0..100]}
  /\ decision = <<>>
  /\ now = 0
  /\ InitVoiceIdle
  /\ InitRideIdle
  /\ InitStoreIdle
  /\ InitMemNetIdle
  /\ InitWindowIdle
  /\ InitMemIdle

NextAction == Decide

SpecAction == InitAction /\ [][NextAction]_vars

(***************************************************************************)
(* The ride: the rider's taps, the sensors, the timers and the network      *)
(***************************************************************************)
RideTickMs == FALL_ESCALATION_DELAY_MS
RideHorizon == 7
EmergencyHorizon == 2

notRide == <<scIn, scOut, decision, memories, voice, window, store, memNet, fuzzy, fatigue, overlay, tracker>>

\* the rider and the sensors act during the observed window
InWindow == now < window * RideTickMs

\* the Start/End button and the Help button lie under the EmergencyOverlay
\* (fixed inset-0 z-50) while it is shown
OverlayShown == ride.isEmergencyActive

RideTimerDue == \E x \in ride.timers : x.due <= now

\* tap on Start: handleStartRide (lines 577-630) up to the await of
\* startMonitoring, which waits for the first position
StartRideTap ==
  /\ InWindow
  /\ ~OverlayShown /\ ~ride.isLoading /\ ~ride.isRideActive
  /\ ride.rides < MaxRides
  /\ ride' = [ride EXCEPT !.isLoading = TRUE, !.starting = <<Closure(ride)>>]
  /\ UNCHANGED <<notRide, now>>

\* the position arrives or is refused: the rest of handleStartRide
StartRideDone ==
  /\ ride.starting # <<>>
  /\ \E success \in BOOLEAN :
       ride' = IF success
               THEN [startMonitoring(ride) EXCEPT
                       !.onRiskEvent = <<ride.starting[1]>>,
                       !.onEmergency = <<ride.starting[1]>>,
                       !.rides = @ + 1,
                       !.sessionId = ride.rides + 1,
                       !.isRideActive = TRUE,
                       !.isLoading = FALSE,
                       !.starting = <<>>]
               ELSE [ride EXCEPT !.isLoading = FALSE, !.starting = <<>>]
  /\ UNCHANGED <<notRide, now>>

\* tap on End: handleStopRide (lines 633-672)
StopRideTap ==
  /\ InWindow
  /\ ~OverlayShown /\ ~ride.isLoading /\ ride.isRideActive
  /\ ride' = [stopMonitoring(ride) EXCEPT !.isRideActive = FALSE, !.sessionId = 0]
  /\ UNCHANGED <<notRide, now>>

\* a devicemotion event while monitoring (lines 228-248): a fall is
\* detected when the change of acceleration exceeds the threshold
Motion ==
  /\ InWindow
  /\ ride.isActive
  /\ \E totalDelta \in {FALL_THRESHOLD, FALL_THRESHOLD + 1} :
       ride' = IF totalDelta > FALL_THRESHOLD
               THEN triggerRiskEvent(ride, [type |-> "fall_detected", severity |-> "critical",
                                            timestamp |-> now], now)
               ELSE ride
  /\ UNCHANGED <<notRide, now>>

\* the demo control 'heat': rideMonitor.triggerHeatWarning (lines 322-329)
TriggerHeatWarning ==
  /\ InWindow
  /\ ride' = triggerRiskEvent(ride, [type |-> "heat_warning", severity |-> "high",
                                     timestamp |-> now], now)
  /\ UNCHANGED <<notRide, now>>

\* tap on Help, or on the demo control 'emergency': handleEmergency as last
\* rendered
HelpTap ==
  /\ InWindow
  /\ ride.sessionId # 0 => Len(ride.emergencyEvents) < MaxEmergencies
  /\ \E online \in BOOLEAN : ride' = handleEmergency(ride, Closure(ride), online, now)
  /\ UNCHANGED <<notRide, now>>

\* the escalation timer of an accepted fall fires: this.onEmergency?.()
FallTimerFires ==
  /\ \E x \in ride.timers :
       /\ x.kind = "fall" /\ x.due <= now
       /\ \E online \in BOOLEAN :
            LET r0 == [ride EXCEPT !.timers = @ \ {x}]
                r1 == IF r0.onEmergency = <<>> THEN r0
                      ELSE handleEmergency(r0, r0.onEmergency[1], online, now)
            IN ride' = IF r0.onEmergency # <<>> /\ r1.isEmergencyActive
                       THEN [r1 EXCEPT !.owed = @ \ {x.ref}, !.lastEscalated = <<x.ref>>]
                       ELSE r1
  /\ UNCHANGED <<notRide, now>>

\* the overlay's countdown reaches 0 (lines 136-147)
CountdownEnds ==
  /\ \E x \in ride.timers :
       /\ x.kind = "countdown" /\ x.due <= now
       /\ ride' = [ride EXCEPT !.timers = @ \ {x}, !.phase = "active",
                               !.activatedAt = <<>>]
  /\ UNCHANGED <<notRide, now>>

\* tap on the overlay's cancel button during the countdown: handleCancel
\* (lines 153-156)
CancelTap ==
  /\ InWindow
  /\ OverlayShown /\ ride.phase = "countdown"
  /\ LET r1 == handleCancelEmergency(ride, ride.emergencyEventId, now)
         id == ride.emergencyEventId
     IN ride' = [r1 EXCEPT !.lastCancel =
                   <<[session |-> ride.emergencyRide,
                      recorded |-> IF id \in 1..Len(r1.emergencyEvents)
                                   THEN r1.emergencyEvents[id].status ELSE "none"]>>]
  /\ UNCHANGED <<notRide, now>>

\* tap on "I'm Okay Now" once help is on its way: handleImOkay (lines 158-163)
ImOkayTap ==
  /\ InWindow
  /\ OverlayShown /\ ride.phase = "active"
  /\ ride' = [ride EXCEPT !.phase = "resolved",
                          !.timers = @ \cup {[kind |-> "resolve", due |-> now + RESOLVE_DELAY_MS,
                                              ref |-> ride.emergencyEventId]}]
  /\ UNCHANGED <<notRide, now>>

\* the timer of handleImOkay fires: onResolve
ResolveTimerFires ==
  /\ \E x \in ride.timers :
       /\ x.kind = "resolve" /\ x.due <= now
       /\ ride' = handleResolveEmergency([ride EXCEPT !.timers = @ \ {x}], x.ref, now)
  /\ UNCHANGED <<notRide, now>>

\* the upsert of syncEmergencyToCloud returns (lines 283-299): on success
\* the event object it was given is written back over the stored one
SyncEmergencyDone ==
  /\ \E id \in ride.syncing : \E ok \in BOOLEAN :
       ride' = IF ok
               THEN [ride EXCEPT !.syncing = @ \ {id},
                                 !.emergencyEvents[id].status = "active",
                                 !.emergencyEvents[id].synced = TRUE]
               ELSE [ride EXCEPT !.syncing = @ \ {id}]
  /\ UNCHANGED <<notRide, now>>

\* the due time of the earliest pending timer of the ride, if any
RideNextDue(grid) ==
  IF ride.timers = {} THEN grid
  ELSE Min(grid, CHOOSE d \in {x.due : x \in ride.timers} : \A x \in ride.timers : d <= x.due)

\* time passes, to the next tick or to the next timer if that comes first;
\* after the window only to let the pending timers fire
RideTick ==
  /\ ~RideTimerDue
  /\ InWindow \/ ride.timers # {}
  /\ now' = RideNextDue((now \div RideTickMs + 1) * RideTickMs)
  /\ UNCHANGED <<notRide, ride, window, store, memNet, fuzzy, fatigue, overlay, tracker>>

InitRide ==
  /\ InitFuzzyIdle
  /\ InitFatigueIdle
  /\ InitOverlayIdle
  /\ InitTrackerIdle
  /\ InitScoreIdle
  /\ InitMemIdle
  /\ InitVoiceIdle
  /\ InitRideIdle
  /\ InitStoreIdle
  /\ InitMemNetIdle
  /\ now = 0
  /\ window = RideHorizon

InitEmergency ==
  /\ InitFuzzyIdle
  /\ InitFatigueIdle
  /\ InitOverlayIdle
  /\ InitTrackerIdle
  /\ InitScoreIdle
  /\ InitMemIdle
  /\ InitVoiceIdle
  /\ InitRideIdle
  /\ InitStoreIdle
  /\ InitMemNetIdle
  /\ now = 0
  /\ window = EmergencyHorizon

\* the detector at work: rides, sensor and demo triggers, the escalation of
\* falls and the rider's answers on the overlay
NextRide ==
  \/ StartRideTap \/ StartRideDone \/ StopRideTap
  \/ Motion \/ TriggerHeatWarning
  \/ FallTimerFires \/ CountdownEnds \/ CancelTap \/ ImOkayTap \/ ResolveTimerFires
  \/ RideTick

SpecRide == InitRide /\ [][NextRide]_vars

\* the browser runs a timer once it is due, and time passes
FairRide == WF_vars(RideTick) /\ WF_vars(FallTimerFires) /\ WF_vars(CountdownEnds)
              /\ WF_vars(ResolveTimerFires)

SpecRideFair == InitRide /\ [][NextRide]_vars /\ FairRide

\* the emergencies of a ride: Help taps and falls, the rider's answers, the
\* store and its priority sync
NextEmergency ==
  \/ StartRideTap \/ StartRideDone \/ StopRideTap
  \/ Motion \/ HelpTap
  \/ FallTimerFires \/ CountdownEnds \/ CancelTap \/ ImOkayTap \/ ResolveTimerFires
  \/ SyncEmergencyDone
  \/ RideTick

SpecEmergency == InitEmergency /\ [][NextEmergency]_vars

(***************************************************************************)
(* The store at work: the page's calls, the network and the upserts         *)
(***************************************************************************)
notStore == <<scIn, scOut, decision, memories, now, voice, ride, window, memNet, fuzzy, fatigue, overlay, tracker>>

\* a syncToCloud run can be followed (the number of runs in flight is
\* bounded)
SlotFree == ~store.online \/ Len(store.runs) < MaxSyncRuns

UpsertOutcomes == {"ok", "error", "throw"}

\* handleStartRide calls startRideSession (Index.tsx line 597)
StoreStartRide ==
  /\ store.current = 0 /\ SlotFree
  /\ Len(store.written.sessions) < MaxStoredSessions
  /\ store' = [startRideSession(store) EXCEPT !.current = Len(store.written.sessions) + 1]
  /\ UNCHANGED notStore

\* handleStopRide calls endRideSession (Index.tsx line 645)
StoreEndRide ==
  /\ store.current # 0 /\ SlotFree
  /\ store' = [endRideSession(store, store.current) EXCEPT !.current = 0]
  /\ UNCHANGED notStore

\* a risk event of the ride is saved
StoreRiskEvent ==
  /\ store.current # 0 /\ SlotFree
  /\ Len(store.written.risk) < MaxStoredRisk
  /\ store' = storeSaveRiskEvent(store, store.current)
  /\ UNCHANGED notStore

\* an emergency of the ride is saved
StoreEmergency ==
  /\ store.current # 0
  /\ Len(store.written.emergency) < MaxStoredEmergencies
  /\ store' = storeSaveEmergencyEvent(store, store.current)
  /\ UNCHANGED notStore

\* the page ends an emergency that it has not ended yet
StoreResolve ==
  /\ SlotFree
  /\ \E eventId \in 1..Len(store.written.emergency) :
     \E status \in {"resolved", "false_alarm"} :
       /\ store.written.emergency[eventId] = "active"
       /\ store' = storeResolveEmergency(store, eventId, status)
  /\ UNCHANGED notStore

\* the upsert that a syncToCloud run awaits returns; it succeeds only while
\* the network is there
UpsertReturns ==
  /\ \E k \in 1..Len(store.runs) : \E outcome \in UpsertOutcomes :
       /\ outcome = "ok" => store.online
       /\ store' = upsertReturns(store, k, outcome)
  /\ UNCHANGED notStore

\* the upsert that a syncEmergencyToCloud awaits returns
PrioReturns ==
  /\ \E event \in store.prio : \E outcome \in UpsertOutcomes :
       /\ outcome = "ok" => store.online
       /\ store' = prioReturns(store, event, outcome)
  /\ UNCHANGED notStore

\* the network goes away
GoOffline ==
  /\ store.online
  /\ store' = [store EXCEPT !.online = FALSE]
  /\ UNCHANGED notStore

\* the network comes back: the 'online' listener (lines 306-311)
GoOnline ==
  /\ ~store.online
  /\ Len(store.runs) < MaxSyncRuns
  /\ store' = syncToCloud([store EXCEPT !.online = TRUE])
  /\ UNCHANGED notStore

InitStore ==
  /\ InitFuzzyIdle
  /\ InitFatigueIdle
  /\ InitOverlayIdle
  /\ InitTrackerIdle
  /\ InitScoreIdle
  /\ InitMemIdle
  /\ InitVoiceIdle
  /\ InitRideIdle
  /\ InitWindowIdle
  /\ InitMemNetIdle
  /\ now = 0
  /\ \E online \in BOOLEAN : store = [NewStore EXCEPT !.online = online]

NextStore ==
  \/ StoreStartRide \/ StoreEndRide \/ StoreRiskEvent \/ StoreEmergency \/ StoreResolve
  \/ UpsertReturns \/ PrioReturns
  \/ GoOffline \/ GoOnline

SpecStore == InitStore /\ [][NextStore]_vars

(***************************************************************************)
(* The location memory at work: the rider's answers, the cloud, the clock   *)
(***************************************************************************)
\* half a month, in hours
MemTickHours == 15 * 24
MemHorizon == 3

notMem == <<scIn, scOut, decision, voice, ride, window, store, fuzzy, fatigue, overlay, tracker>>

\* the stored entries and the network, as the operators take them
MemState == [mem |-> memories, net |-> memNet]

\* a further syncMemoryToCloud can be followed (the number of uploads in
\* flight is bounded)
UploadFree == ~memNet.online \/ Cardinality(memNet.uploads) < MaxUploads

\* the number of alarms recorded in the entry of a cell
Recorded(cell) ==
  IF memories[cell] = <<>> THEN 0
  ELSE memories[cell][1].falseAlarmCount + memories[cell][1].trueAlarmCount

\* the rider answered "OK" at a location
RecordFalseAlarm ==
  /\ \E cell \in Cells :
       /\ Recorded(cell) < MaxAlarms /\ UploadFree
       /\ LET q == recordFalseAlarm(MemState, cell, now)
          IN memories' = q.mem /\ memNet' = q.net
  /\ UNCHANGED <<notMem, now>>

\* the rider confirmed the danger at a location
RecordTrueAlert ==
  /\ \E cell \in Cells :
       /\ Recorded(cell) < MaxAlarms /\ UploadFree
       /\ LET q == recordTrueAlert(MemState, cell, now)
          IN memories' = q.mem /\ memNet' = q.net
  /\ UNCHANGED <<notMem, now>>

\* the upsert of a syncMemoryToCloud returns
UploadReturns ==
  /\ \E u \in memNet.uploads : \E outcome \in UpsertOutcomes :
       /\ outcome = "ok" => memNet.online
       /\ LET q == uploadReturns(MemState, u, outcome, now)
          IN memories' = q.mem /\ memNet' = q.net
  /\ UNCHANGED <<notMem, now>>

\* the app starts: loadMemoriesFromCloud() (line 278)
LoadStart ==
  /\ memNet.load = <<>>
  /\ LET q == loadMemoriesFromCloud(MemState)
     IN memories' = q.mem /\ memNet' = q.net
  /\ UNCHANGED <<notMem, now>>

\* the server answers the select with the rows it holds
LoadServed ==
  /\ memNet.load # <<>> /\ memNet.load[1].data = <<>> /\ memNet.online
  /\ memNet' = [memNet EXCEPT !.load = <<[data |-> <<memNet.rows>>]>>]
  /\ UNCHANGED <<notMem, now, memories>>

\* the select returns: with the rows, or with an error
LoadReturns ==
  /\ memNet.load # <<>>
  /\ \E outcome \in UpsertOutcomes :
       /\ outcome = "ok" => memNet.load[1].data # <<>>
       /\ LET q == loadReturns(MemState, outcome)
          IN memories' = q.mem /\ memNet' = q.net
  /\ UNCHANGED <<notMem, now>>

\* cleanupOldMemories is called
CleanupOldMemories ==
  /\ LET q == cleanupOldMemories(MemState, now)
     IN memories' = q.mem /\ memNet' = q.net
  /\ UNCHANGED <<notMem, now>>

\* the network goes away
MemGoOffline ==
  /\ memNet.online
  /\ memNet' = [memNet EXCEPT !.online = FALSE]
  /\ UNCHANGED <<notMem, now, memories>>

\* the network comes back: the 'online' listener runs syncAllMemories
\* (line 276)
MemGoOnline ==
  /\ ~memNet.online /\ Cardinality(memNet.uploads) < MaxUploads
  /\ LET q == syncAllMemories([MemState EXCEPT !.net.online = TRUE])
     IN memories' = q.mem /\ memNet' = q.net
  /\ UNCHANGED <<notMem, now>>

\* half a month passes
MemTick ==
  /\ now < (window + 1) * MemTickHours
  /\ now' = now + MemTickHours
  /\ UNCHANGED <<notMem, memories, memNet, fuzzy, fatigue, overlay, tracker>>

InitMemory ==
  /\ InitFuzzyIdle
  /\ InitFatigueIdle
  /\ InitOverlayIdle
  /\ InitTrackerIdle
  /\ InitScoreIdle
  /\ InitVoiceIdle
  /\ InitRideIdle
  /\ InitStoreIdle
  /\ InitMemIdle
  /\ now = MemTickHours
  /\ window = MemHorizon
  /\ \E online \in BOOLEAN : memNet = [NewMemNet EXCEPT !.online = online]

NextMemory ==
  \/ RecordFalseAlarm \/ RecordTrueAlert \/ UploadReturns
  \/ LoadStart \/ LoadServed \/ LoadReturns
  \/ CleanupOldMemories
  \/ MemGoOffline \/ MemGoOnline
  \/ MemTick

SpecMemory == InitMemory /\ [][NextMemory]_vars

\* the upsert of a syncMemoryToCloud returns without error
UploadSucceeds ==
  /\ memNet.online
  /\ \E u \in memNet.uploads :
       LET q == uploadReturns(MemState, u, "ok", now)
       IN memories' = q.mem /\ memNet' = q.net
  /\ UNCHANGED <<notMem, now>>

\* Every awaited upsert and select settles and the answer of the server
\* arrives (the promises of the client resolve or reject).  The network is
\* taken as the sync needs it: a device that is offline comes online again,
\* and when upserts are attempted again and again one of them succeeds.
FairMemory ==
  /\ WF_vars(UploadReturns) /\ WF_vars(LoadServed) /\ WF_vars(LoadReturns)
  /\ WF_vars(MemGoOnline)
  /\ SF_vars(UploadSucceeds)

SpecMemoryFair == InitMemory /\ [][NextMemory]_vars /\ FairMemory

\* getLocationConfidenceAdjustment as a function of the stored counters: every
\* pair of counts up to MaxAlarmCount, and the unknown cell
MaxAlarmCount == 10

AdjustCases ==
  {<<>>} \cup {<<[falseAlarmCount |-> f, trueAlarmCount |-> t, lastTriggered |-> 1,
                  synced |-> FALSE]>> : f \in 0..MaxAlarmCount, t \in 0..MaxAlarmCount}

\* the scorer asks for the adjustment of a cell
Adjust ==
  /\ memNet.adjustment = <<>>
  /\ \E cell \in Cells :
       memNet' = [memNet EXCEPT !.adjustment =
                    <<[cell |-> cell, value |-> getLocationConfidenceAdjustment(cell)]>>]
  /\ UNCHANGED <<notMem, now, memories>>

InitAdjust ==
  /\ InitFuzzyIdle
  /\ InitFatigueIdle
  /\ InitOverlayIdle
  /\ InitTrackerIdle
  /\ InitScoreIdle
  /\ InitVoiceIdle
  /\ InitRideIdle
  /\ InitStoreIdle
  /\ InitWindowIdle
  /\ InitMemNetIdle
  /\ now = 0
  /\ memories \in [Cells -> AdjustCases]

NextAdjust == Adjust

SpecAdjust == InitAdjust /\ [][NextAdjust]_vars

(***************************************************************************)
(* One call of fuzzyMatch against one keyword                               *)
(***************************************************************************)
InitFuzzy ==
  /\ InitScoreIdle
  /\ InitMemIdle
  /\ InitVoiceIdle
  /\ InitRideIdle
  /\ InitWindowIdle
  /\ InitStoreIdle
  /\ InitMemNetIdle
  /\ InitFatigueIdle
  /\ InitOverlayIdle
  /\ InitTrackerIdle
  /\ now = 0
  /\ \E keyword \in KeywordCases : \E input \in Within(keyword, MaxEdits) :
       fuzzy = [input |-> input, keyword |-> keyword,
                distance |-> EditDistance(keyword, input), result |-> <<>>]

Match ==
  /\ fuzzy.result = <<>>
  /\ fuzzy.keyword # <<>>
  /\ fuzzy' = [fuzzy EXCEPT !.result = <<fuzzyMatch(fuzzy.input, <<fuzzy.keyword>>)>>]
  /\ UNCHANGED <<scIn, scOut, decision, memories, now, voice, ride, window, store, memNet,
                 fatigue, overlay, tracker>>

NextFuzzy == Match

SpecFuzzy == InitFuzzy /\ [][NextFuzzy]_vars

(***************************************************************************)
(* The fatigue detector: the sensors, the interval timer and the clock      *)
(* (seconds).  The initial state is the detector as constructed, or a       *)
(* session just started whose buffers hold the samples that the variances   *)
(* need, steady or alternating, and whose temperature is unknown or given.  *)
(***************************************************************************)
MaxFed == 1
MaxSleeps == 2
MaxFatigueSessions == 1
FatigueHorizon == 4

\* Date.now() at the initial state, and the lengths of a suspension: eight
\* check intervals, or an hour and a half
FatigueEpoch == 1000 * 1000
SleepCases == {8 * CHECK_INTERVAL, 90 * 60}

\* magnitudes of the acceleration, |beta| + |gamma|, speeds and temperatures
AccelCases == {10, 16}
GyroCases == {5, 25}
SpeedSamples == {0, 20}
TempCases == {30, 38, 45}

\* n samples, all equal to lo (steady) or alternating between lo and hi
Samples(n, lo, hi, steady) == [i \in 1..n |-> IF steady \/ i % 2 = 1 THEN lo ELSE hi]

RECURSIVE feedMotion(_, _)
feedMotion(f, data) ==
  IF data = <<>> THEN f ELSE feedMotion(handleMotion(f, <<Head(data)>>), Tail(data))

RECURSIVE feedOrientation(_, _)
feedOrientation(f, data) ==
  IF data = <<>> THEN f ELSE feedOrientation(handleOrientation(f, Head(data)), Tail(data))

RECURSIVE feedSpeed(_, _)
feedSpeed(f, data) ==
  IF data = <<>> THEN f ELSE feedSpeed(updateGPSData(f, Head(data)), Tail(data))

notFatigue == <<scIn, scOut, decision, memories, voice, ride, window, store, memNet, fuzzy, overlay, tracker>>

CanFeed == fatigue.fed < MaxFed

\* a devicemotion event, with or without a reading
FatigueMotion ==
  /\ fatigue.isMonitoring /\ CanFeed
  /\ \E acc \in {<<>>} \cup {<<m>> : m \in AccelCases} :
       fatigue' = [handleMotion(fatigue, acc) EXCEPT !.fed = @ + 1]
  /\ UNCHANGED <<notFatigue, now>>

\* a deviceorientation event
FatigueOrientation ==
  /\ fatigue.isMonitoring /\ CanFeed
  /\ \E combined \in GyroCases :
       fatigue' = [handleOrientation(fatigue, combined) EXCEPT !.fed = @ + 1]
  /\ UNCHANGED <<notFatigue, now>>

\* the page passes the monitor's speed on (Index.tsx line 410)
FatigueSpeed ==
  /\ CanFeed
  /\ \E speed \in SpeedSamples :
       fatigue' = [updateGPSData(fatigue, speed) EXCEPT !.fed = @ + 1]
  /\ UNCHANGED <<notFatigue, now>>

FatigueTemperature ==
  /\ CanFeed
  /\ \E temp \in TempCases :
       /\ fatigue.ambientTemp # <<temp>>
       /\ fatigue' = [updateTemperature(fatigue, temp) EXCEPT !.fed = @ + 1]
  /\ UNCHANGED <<notFatigue, now>>

\* the interval timer is due: updateFatigueScore and checkAndNudge run
FatigueIntervalFires ==
  /\ fatigue.checkInterval # <<>>
  /\ now >= fatigue.checkInterval[1]
  /\ fatigue.ticks < window
  /\ fatigue' = [intervalCallback(fatigue, now) EXCEPT
                   !.checkInterval = <<now + CHECK_INTERVAL>>]
  /\ UNCHANGED <<notFatigue, now>>

\* the clock reaches the time at which the interval timer is due
FatigueTick ==
  /\ fatigue.checkInterval # <<>>
  /\ now < fatigue.checkInterval[1]
  /\ fatigue.ticks < window
  /\ now' = fatigue.checkInterval[1]
  /\ UNCHANGED <<notFatigue, fatigue>>

\* the device is suspended: the clock moves on and no timer runs meanwhile
FatigueSleep ==
  /\ fatigue.slept < MaxSleeps
  /\ fatigue.ticks < window
  /\ \E seconds \in SleepCases : now' = now + seconds
  /\ fatigue' = [fatigue EXCEPT !.slept = @ + 1]
  /\ UNCHANGED notFatigue

FatigueStop ==
  /\ fatigue.isMonitoring
  /\ fatigue' = fatigueStopMonitoring(fatigue)
  /\ UNCHANGED <<notFatigue, now>>

FatigueStart ==
  /\ ~fatigue.isMonitoring
  /\ fatigue.sessions < MaxFatigueSessions
  /\ fatigue' = fatigueStartMonitoring(fatigue, now)
  /\ UNCHANGED <<notFatigue, now>>

InitFatigue ==
  /\ InitScoreIdle
  /\ InitMemIdle
  /\ InitVoiceIdle
  /\ InitRideIdle
  /\ InitStoreIdle
  /\ InitMemNetIdle
  /\ InitFuzzyIdle
  /\ InitOverlayIdle
  /\ InitTrackerIdle
  /\ window = FatigueHorizon
  /\ now = FatigueEpoch
  /\ \/ fatigue = NewFatigue
     \/ \E a, g, v \in BOOLEAN : \E temp \in {<<>>} \cup {<<t>> : t \in TempCases} :
       fatigue =
         [feedSpeed(
            feedOrientation(
              feedMotion(fatigueStartMonitoring(NewFatigue, FatigueEpoch),
                         Samples(10, 10, 16, a)),
              Samples(10, 5, 25, g)),
            Samples(5, 0, 20, v))
          EXCEPT !.ambientTemp = temp]

NextFatigue ==
  \/ FatigueMotion \/ FatigueOrientation \/ FatigueSpeed \/ FatigueTemperature
  \/ FatigueIntervalFires \/ FatigueTick \/ FatigueSleep
  \/ FatigueStop \/ FatigueStart

SpecFatigue == InitFatigue /\ [][NextFatigue]_vars

(***************************************************************************)
(* The emergency overlay at work: the page raises emergencies, the rider    *)
(* taps the overlay's buttons, the timers run                               *)
(***************************************************************************)
MaxActivations == 2
OverlayClockMs == INTERVAL_MS \div 2

notOverlay == <<scIn, scOut, decision, memories, voice, ride, window, store, memNet, fuzzy,
                fatigue, tracker>>

OverlayTimerDue ==
  \/ overlay.interval # <<>> /\ overlay.interval[1] <= now
  \/ \E due \in overlay.resolves : due <= now

\* the page raises an emergency (handleEmergency: the Help button, a fall)
OverlayActivate ==
  /\ ~overlay.isActive
  /\ overlay.activations < MaxActivations
  /\ overlay' = setIsEmergencyActive(overlay, TRUE, now)
  /\ UNCHANGED <<notOverlay, now>>

\* the interval of the effect runs
OverlayIntervalFires ==
  /\ overlay.interval # <<>> /\ overlay.interval[1] <= now
  /\ overlay' = overlayInterval(overlay)
  /\ UNCHANGED <<notOverlay, now>>

\* tap on the cancel button, shown during the countdown
OverlayCancelTap ==
  /\ overlay.isActive /\ overlay.phase = "countdown"
  /\ overlay' = overlayHandleCancel(overlay, now)
  /\ UNCHANGED <<notOverlay, now>>

\* tap on "I'm Okay Now", shown once help is on its way
OverlayImOkayTap ==
  /\ overlay.isActive /\ overlay.phase = "active"
  /\ overlay' = overlayHandleImOkay(overlay, now)
  /\ UNCHANGED <<notOverlay, now>>

\* the timer of handleImOkay fires
OverlayResolveFires ==
  /\ \E due \in overlay.resolves :
       /\ due <= now
       /\ overlay' = overlayOnResolve(overlay, due, now)
  /\ UNCHANGED <<notOverlay, now>>

\* time passes while a timer is pending; a timer that is due runs first
OverlayClock ==
  /\ ~OverlayTimerDue
  /\ overlay.interval # <<>> \/ overlay.resolves # {}
  /\ now' = now + OverlayClockMs
  /\ UNCHANGED <<notOverlay, overlay>>

InitOverlay ==
  /\ InitScoreIdle
  /\ InitMemIdle
  /\ InitVoiceIdle
  /\ InitRideIdle
  /\ InitWindowIdle
  /\ InitStoreIdle
  /\ InitMemNetIdle
  /\ InitFuzzyIdle
  /\ InitFatigueIdle
  /\ InitTrackerIdle
  /\ now = 0
  /\ overlay = NewOverlay

NextOverlay ==
  \/ OverlayActivate \/ OverlayIntervalFires \/ OverlayCancelTap
  \/ OverlayImOkayTap \/ OverlayResolveFires \/ OverlayClock

SpecOverlay == InitOverlay /\ [][NextOverlay]_vars

(***************************************************************************)
(* The tracker at work: a ride, its position samples and its idle checks    *)
(***************************************************************************)
MaxChecks == 12
MaxSamples == 2
MaxTrackerRides == 1
TrackerClockMs == IDLE_CHECK_MS \div 2

\* speeds of the position samples: at the limit, moving
SampleSpeeds == {MOVING_KMH, MOVING_KMH + 1}

notTracker == <<scIn, scOut, decision, memories, voice, ride, window, store, memNet, fuzzy,
                fatigue, overlay>>

TrackerTimerDue ==
  tracker.idleCheckInterval # <<>> /\ tracker.idleCheckInterval[1] <= now

\* the ride starts
TrackerStart ==
  /\ ~tracker.isActive
  /\ tracker.rides < MaxTrackerRides
  /\ tracker' = trackerStartMonitoring(tracker, now)
  /\ UNCHANGED <<notTracker, now>>

\* the ride ends
TrackerStop ==
  /\ tracker.isActive
  /\ tracker' = trackerStopMonitoring(tracker)
  /\ UNCHANGED <<notTracker, now>>

\* the position watch delivers a sample
TrackerPosition ==
  /\ tracker.isActive
  /\ tracker.samples < MaxSamples
  /\ \E speedKmh \in SampleSpeeds :
       tracker' = handlePositionUpdate(tracker, speedKmh, now)
  /\ UNCHANGED <<notTracker, now>>

\* the idle-check interval runs
TrackerCheckFires ==
  /\ TrackerTimerDue
  /\ tracker' = [checkIdle(tracker, now) EXCEPT
                   !.idleCheckInterval = <<@[1] + IDLE_CHECK_MS>>]
  /\ UNCHANGED <<notTracker, now>>

\* time passes during the ride; an interval that is due runs first
TrackerClock ==
  /\ tracker.isActive
  /\ ~TrackerTimerDue
  /\ tracker.checks < MaxChecks
  /\ now' = now + TrackerClockMs
  /\ UNCHANGED <<notTracker, tracker>>

InitTracker ==
  /\ InitScoreIdle
  /\ InitMemIdle
  /\ InitVoiceIdle
  /\ InitRideIdle
  /\ InitWindowIdle
  /\ InitStoreIdle
  /\ InitMemNetIdle
  /\ InitFuzzyIdle
  /\ InitFatigueIdle
  /\ InitOverlayIdle
  /\ now = 0
  /\ tracker = NewTracker

NextTracker ==
  \/ TrackerStart \/ TrackerStop \/ TrackerPosition \/ TrackerCheckFires \/ TrackerClock

SpecTracker == InitTracker /\ [][NextTracker]_vars

(***************************************************************************)
(* Claims about the scorer                                                  *)
(***************************************************************************)

\* C3: for every event and context (any speed, any sensor intensity, negative
\* or very large, any history, any location memory) the confidence that
\* calculateConfidence returns lies in [0, 100].
C3_ConfidenceInRange ==
  scOut # <<>> /\ scIn # <<>> =>
    scOut[1].confidence >= 0 /\ scOut[1].confidence <= 100

\* a scored event whose factor sum is below the range and was clamped to 0
C3_Witness ==
  /\ scIn # <<>> /\ scOut # <<>>
  /\ FactorSum(scOut[1].confidenceFactors) < 0
  /\ scOut[1].confidence = 0

\* C4: for every confidence c in 0..100 the action is 'suppress' iff c < 40,
\* 'confirm' iff 40 <= c < 70, 'alert' iff 70 <= c < 85, 'emergency' iff
\* c >= 85: the four bands partition the range.
C4_ActionBands ==
  decision # <<>> =>
    LET c == scOut[1].confidence
        a == decision[1].action
    IN /\ a \in {"suppress", "confirm", "alert", "emergency"}
       /\ (a = "suppress" <=> c < 40)
       /\ (a = "confirm" <=> (40 <= c /\ c < 70))
       /\ (a = "alert" <=> (70 <= c /\ c < 85))
       /\ (a = "emergency" <=> c >= 85)

\* the lower edge of the emergency band has been decided
C4_Witness ==
  decision # <<>> /\ scOut[1].confidence = 85 /\ decision[1].action = "emergency"

\* C5: shouldAutoTriggerEmergency(e) is true exactly when e is a fall_detected
\* with confidence >= 85, or e is critical with confidence >= 90.
C5_AutoTriggerIff ==
  decision # <<>> =>
    LET e == scOut[1] IN
    decision[1].auto <=>
      \/ (e.type = "fall_detected" /\ e.confidence >= 85)
      \/ (e.severity = "critical" /\ e.confidence >= 90)

\* a critical event that is no fall, between the two thresholds, was refused
C5_Witness ==
  /\ decision # <<>>
  /\ scOut[1].type # "fall_detected" /\ scOut[1].severity = "critical"
  /\ scOut[1].confidence = 89
  /\ ~decision[1].auto

\* the scenario of a quiet daytime event of medium severity: no sensor
\* intensity supplied, no location history, an hour in 7..18, speed <= 5,
\* no recent events
QuietMediumScenario ==
  /\ scIn # <<>>
  /\ scIn[1].event.severity = "medium"
  /\ scIn[1].context.sensorIntensity = <<>>
  /\ (scIn[1].event.cell = 0 \/ memories[scIn[1].event.cell] = <<>>)
  /\ scIn[1].context.hour >= 7 /\ scIn[1].context.hour <= 18
  /\ scIn[1].context.currentSpeed <= 5
  /\ scIn[1].context.recentEvents = <<>>

\* C21 as stated: in the quiet medium scenario the confidence is 15, for an
\* event of any type, and the action is 'suppress'.
C21_QuietMediumIs15 ==
  QuietMediumScenario =>
    /\ scOut # <<>> => scOut[1].confidence = 15
    /\ decision # <<>> => decision[1].action = "suppress"

\* C21 amended: in the quiet medium scenario the confidence is the base 15
\* adjusted by the event's type (fall_detected 25, sudden_stop 20,
\* speed_warning and heat_warning 10, any other type 15), and the action is
\* 'suppress'.
C21_QuietMediumByType ==
  QuietMediumScenario =>
    /\ scOut # <<>> =>
         scOut[1].confidence =
           CASE scIn[1].event.type = "fall_detected" -> 25
             [] scIn[1].event.type = "sudden_stop" -> 20
             [] scIn[1].event.type \in {"speed_warning", "heat_warning"} -> 10
             [] OTHER -> 15
    /\ decision # <<>> => decision[1].action = "suppress"

\* a medium fall in the quiet scenario was scored 25 and suppressed
C21_Witness ==
  /\ QuietMediumScenario
  /\ scIn[1].event.type = "fall_detected"
  /\ decision # <<>>
  /\ scOut[1].confidence = 25
  /\ decision[1].action = "suppress"

(***************************************************************************)
(* Claims about the keyword matching                                        *)
(***************************************************************************)

\* C22 as stated: against a keyword longer than 4 characters, an input at
\* Levenshtein distance exactly 1 matches and an input at distance exactly 2
\* does not.
C22_FuzzyBoundary ==
  (fuzzy.result # <<>> /\ Len(fuzzy.keyword) > 4) =>
    /\ fuzzy.distance = 1 => fuzzy.result[1]
    /\ fuzzy.distance = 2 => ~fuzzy.result[1]

\* an input that is one lower-case word: no blank and no capital
OneLowerCaseWord(str) == \A i \in 1..Len(str) : str[i] \notin {" ", "A"}

\* C22 amended: against a keyword longer than 4 characters, an input at
\* distance exactly 1 matches; an input at distance exactly 2 that is one
\* lower-case word does not match.
C22_FuzzyBoundaryOneWord ==
  (fuzzy.result # <<>> /\ Len(fuzzy.keyword) > 4) =>
    /\ fuzzy.distance = 1 => fuzzy.result[1]
    /\ (fuzzy.distance = 2 /\ OneLowerCaseWord(fuzzy.input)) => ~fuzzy.result[1]

\* a one-word input two edits away from a long keyword was refused
C22_Witness ==
  /\ fuzzy.result # <<>>
  /\ Len(fuzzy.keyword) > 4
  /\ fuzzy.distance = 2
  /\ OneLowerCaseWord(fuzzy.input)
  /\ ~fuzzy.result[1]

(***************************************************************************)
(* Claims about the fatigue detector                                        *)
(***************************************************************************)

\* C23: in every reachable state of the fatigue detector fatigueScore and
\* panicScore are each within [0, 100].
C23_ScoresInRange ==
  /\ fatigue.fatigueScore >= 0 /\ fatigue.fatigueScore <= 100
  /\ fatigue.panicScore >= 0 /\ fatigue.panicScore <= 100

\* both scores have reached the top of the range
C23_Witness ==
  fatigue.ticks > 0 /\ fatigue.fatigueScore = 100 /\ fatigue.panicScore = 100

\* C24: within one monitoring session, a run of the interval callback speaks
\* at most one nudge; a nudge it speaks comes at least 5 minutes after every
\* earlier nudge of the session; and when, with the scores it computed,
\* neither panic >= 60 nor fatigue >= 30 holds, it speaks nothing and leaves
\* lastNudgeTime as it was.
C24_NudgesSpaced ==
  [][fatigue'.ticks # fatigue.ticks =>
       /\ Len(fatigue'.spoken) <= Len(fatigue.spoken) + 1
       /\ \A i \in 1..Len(fatigue.spoken) : fatigue'.spoken[i] = fatigue.spoken[i]
       /\ \A i \in 1..Len(fatigue'.spoken) : \A j \in 1..Len(fatigue'.spoken) :
            i < j => fatigue'.spoken[j].time - fatigue'.spoken[i].time >= 5 * 60
       /\ (fatigue'.panicScore < 60 /\ fatigue'.fatigueScore < 30) =>
            /\ fatigue'.spoken = fatigue.spoken
            /\ fatigue'.lastNudgeTime = fatigue.lastNudgeTime]_vars

\* a second nudge was spoken exactly 5 minutes after the first, after a run
\* of the callback that was inside the interval and spoke nothing
C24_Witness ==
  /\ Len(fatigue.spoken) = 2
  /\ fatigue.spoken[2].time - fatigue.spoken[1].time = 5 * 60
  /\ fatigue.spoken[2].tick > fatigue.spoken[1].tick + 1

\* C34: within one monitoring session the time-on-ride part of the fatigue
\* score never goes down from one run of the interval callback to the next
\* (the elapsed ride time only grows, also across 60 and 90 minutes), and it
\* never exceeds 40.
C34_TimeScoreMonotone ==
  /\ [](~FLess(Whole(40), timeScoreOf(fatigue.timeOnRide)))
  /\ [][(fatigue'.sessions = fatigue.sessions /\ fatigue'.ticks # fatigue.ticks) =>
         ~FLess(timeScoreOf(fatigue'.timeOnRide), timeScoreOf(fatigue.timeOnRide))]_vars

\* C40: the scores of a monitoring session do not depend on what the detector
\* recorded before startMonitoring: the scores that the first run of the
\* interval callback computes when no sample and no temperature arrive in
\* between are those of a newly constructed detector started at the same time.
C40_ScoresOfThisSessionOnly ==
  [][(~fatigue.isMonitoring /\ fatigue'.isMonitoring) =>
       LET t == now + CHECK_INTERVAL
           here == updateFatigueScore(fatigue', t)
           fresh == updateFatigueScore(fatigueStartMonitoring(NewFatigue, now), t)
       IN /\ here.fatigueScore = fresh.fatigueScore
          /\ here.panicScore = fresh.panicScore]_vars

(***************************************************************************)
(* Claims about the pattern-duration factor                                 *)
(***************************************************************************)

\* C33: the pattern-duration factor of a scored event e is 7 times the number
\* of history events of e's type whose timestamp lies in the 30 seconds up to
\* e.timestamp, capped at 20; later events of the history do not count.
C33_PatternAsOfEvent ==
  scOut # <<>> =>
    LET event == scIn[1].event
        recent == scIn[1].context.recentEvents
        upTo == {i \in 1..Len(recent) :
                   /\ recent[i].type = event.type
                   /\ event.timestamp - 30000 < recent[i].timestamp
                   /\ recent[i].timestamp <= event.timestamp}
    IN scOut[1].confidenceFactors.patternDuration = Min(20, 7 * Cardinality(upTo))

\* C36: the confidence of every scored event is at most 85, the sum of the
\* largest values of the factors (40 + 20 + 0 + 10 + 15 + 0), and so is the
\* factor sum before the clamp: the upper bound of the clamp never binds.
C36_ConfidenceAtMost85 ==
  scOut # <<>> =>
    /\ scOut[1].confidence <= 40 + 20 + 0 + 10 + 15 + 0
    /\ FactorSum(scOut[1].confidenceFactors) <= 40 + 20 + 0 + 10 + 15 + 0
    /\ scOut[1].confidence = Max(0, FactorSum(scOut[1].confidenceFactors))

\* an event scored 85 with every factor at its largest value
C36_Witness ==
  /\ scOut # <<>>
  /\ scOut[1].confidence = 85
  /\ scOut[1].confidenceFactors =
       [sensorIntensity |-> 40, patternDuration |-> 20, locationAdjustment |-> 0,
        timeOfDay |-> 10, speedContext |-> 15, behaviorConsistency |-> 0]

\* C37: an event scored on the detector's debounced history of its ride has
\* a pattern-duration factor of at most 7 and a confidence of at most 72, and
\* getConfidenceAction does not return 'emergency' for it.
C37_DebouncedAtMost72 ==
  /\ scOut # <<>> =>
       /\ scOut[1].confidenceFactors.patternDuration <= 7
       /\ scOut[1].confidence <= 40 + 7 + 0 + 10 + 15 + 0
  /\ decision # <<>> => decision[1].action # "emergency"

(***************************************************************************)
(* Claims about the escalation of a fall                                    *)
(***************************************************************************)

\* C32: the escalation timer of a fall whose ride stopMonitoring has ended
\* does not raise the emergency when it fires.
C32_StoppedFallNotEscalated ==
  [][\A x \in ride.timers \ ride'.timers :
       (x.kind = "fall" /\ ~ride.isActive)
         => ~(ride'.isEmergencyActive /\ ~ride.isEmergencyActive)]_vars

(***************************************************************************)
(* Claims about the idle check                                              *)
(***************************************************************************)

\* C31: at every idle check of an active ride the idle accumulator equals the
\* time since the last position sample with speed above 2 km/h (since the
\* start of the ride if there was none), and the check raises long_idle
\* exactly when that time exceeds 5 minutes and the debounce does not hold it
\* back.
C31_IdleIsTimeSinceMotion ==
  (tracker.isActive /\ tracker.lastCheck # <<>>) =>
    LET c == tracker.lastCheck[1]
    IN /\ c.idleTime = c.elapsed
       /\ c.raised <=> (c.elapsed > IDLE_WARNING_MS /\ ~c.debounced)

(***************************************************************************)
(* Claims about the emergency overlay                                       *)
(***************************************************************************)

\* C30: while an emergency is active its overlay is in 'countdown' showing
\* 10 less the number of one-second ticks, fewer than 10, with no 'help is
\* coming' spoken, or it has left 'countdown' after exactly 10 ticks, no
\* earlier than 10 s after the activation, with 'help is coming' spoken once;
\* the notification is spoken only on the step from 'countdown' to 'active',
\* and the phase of an active emergency changes only from 'countdown' to
\* 'active' and from 'active' to 'resolved'.
C30_CountdownThenActive ==
  /\ [](overlay.isActive =>
          IF overlay.phase = "countdown"
          THEN /\ overlay.ticks < COUNTDOWN_SECONDS
               /\ overlay.countdown = COUNTDOWN_SECONDS - overlay.ticks
               /\ overlay.helpComing = 0
          ELSE /\ overlay.ticks = COUNTDOWN_SECONDS
               /\ overlay.countdown = 0
               /\ overlay.helpComing = 1
               /\ now >= overlay.activatedAt[1] + COUNTDOWN_SECONDS * 1000)
  /\ [][/\ overlay'.helpComing > overlay.helpComing
          => overlay.phase = "countdown" /\ overlay'.phase = "active"
        /\ (overlay.isActive /\ overlay'.isActive /\ overlay'.phase # overlay.phase)
          => <<overlay.phase, overlay'.phase>> \in
               {<<"countdown", "active">>, <<"active", "resolved">>}]_vars

\* the second emergency, raised after the first was cancelled in its
\* countdown, has counted down, called for help and been answered
C30_Witness ==
  /\ overlay.isActive
  /\ overlay.activations = 2
  /\ overlay.phase = "resolved"
  /\ overlay.helpComing = 1

(***************************************************************************)
(* Claims about the voice confirmation listener                             *)
(***************************************************************************)

\* C6: in a session whose own deadline timer was the first to finalize it
\* (no transcript classified, no cancel or stop before), onResult has been
\* invoked exactly once, with 'timeout', and not before the deadline.
C6_TimeoutReportedOnce ==
  \A s \in Sessions :
    (voice.outcome[s] # <<>> /\ voice.outcome[s][1].by = "deadline")
      => /\ Len(voice.cb[s].results) = 1
         /\ voice.cb[s].results[1].result = "timeout"
         /\ voice.cb[s].results[1].at >= voice.deadline[s][1]

\* C7: onResult is invoked at most once for each start().
C7_OnResultAtMostOnce ==
  \A s \in Sessions : Len(voice.cb[s].results) <= 1

\* a session that handleResult finalized and on which handleResult was
\* called again (a second transcript, the error event, cancel())
C7_Witness ==
  \E s \in Sessions : voice.outcome[s] # <<>> /\ voice.handled[s] >= 2

\* C8: a session that cancel() finalized has had 'cancelled' reported to its
\* onResult, exactly once.
C8_CancelReported ==
  \A s \in Sessions :
    (voice.outcome[s] # <<>> /\ voice.outcome[s][1].by = "cancel")
      => /\ Len(voice.cb[s].results) = 1
         /\ voice.cb[s].results[1].result = "cancelled"

\* C9: once the caller has called stop() on a session, nothing (timer, engine
\* event, cancel(), a second stop()) invokes a callback of that session.
C9_NoCallbackAfterStop ==
  \A s \in Sessions : s \in voice.stopped => ~voice.cb[s].late

\* the caller stopped the latest session twice, its timers have run and the
\* engine, started by the delayed-listen timer, delivers events
C9_Witness ==
  /\ voice.restopped
  /\ voice.started \in voice.stopped
  /\ voice.engine = "running"
  /\ voice.timers = {}

\* C16: once a confirmation session has ended and its timers have run, the
\* location memory of the event's cell holds one false alarm for every
\* session that ended 'ok' and one true alert for every session that ended
\* 'danger', a 'danger' has raised the emergency, and a 'cancelled' session
\* has added nothing.
C16_OutcomeUpdatesMemory ==
  (voice.timers = {} /\ voice.reports = {}) =>
    LET ended(result) ==
          Cardinality({s \in Sessions :
                         voice.outcome[s] # <<>> /\ voice.outcome[s][1].result = result})
        stored == IF memories[EventCell] = <<>>
                  THEN [falseAlarmCount |-> 0, trueAlarmCount |-> 0]
                  ELSE memories[EventCell][1]
    IN /\ stored.falseAlarmCount = ended("ok")
       /\ stored.trueAlarmCount = ended("danger")
       /\ ended("danger") > 0 => ride.isEmergencyActive

\* C25: a session that a classifying transcript finalized has no deadline
\* timer left and has had exactly that classification reported to its
\* onResult, once.
C25_TranscriptReported ==
  \A s \in Sessions :
    (voice.outcome[s] # <<>> /\ voice.outcome[s][1].by = "transcript")
      => /\ \A x \in voice.timers : ~(x.kind = "deadline" /\ x.session = s)
         /\ Len(voice.cb[s].results) = 1
         /\ voice.cb[s].results[1].result = voice.outcome[s][1].result

\* stop() has run for the session: the caller's stop(), or the stop() of
\* handleResult (a classification, the deadline, an error, cancel())
TornDown(s) == s \in voice.stopped \/ voice.outcome[s] # <<>>

\* C26: when no session is waiting, neither the delayed-start timer of a
\* session that has been torn down nor the engine's 'end' event starts the
\* recognizer.
C26_NoStartAfterTeardown ==
  [][voice.options = <<>> =>
       /\ \A x \in voice.timers \ voice'.timers :
            (x.kind = "listen" /\ TornDown(x.session)) => voice'.engine = voice.engine
       /\ EngineEndEvent => voice'.engine = "idle"]_vars

\* C27: while a session is waiting, the engine's 'end' event leaves it
\* waiting without an outcome and starts the recognizer again; a 'no-speech'
\* or 'aborted' error leaves it waiting without an outcome, with the 'end'
\* event to follow; any other error finalizes it with 'timeout'.
C27_EngineEventsWhileWaiting ==
  [][stillWaiting(voice) =>
       LET s == voice.options[1].session IN
       /\ EngineEndEvent =>
            /\ voice'.engine = "starting"
            /\ stillWaiting(voice') /\ voice'.outcome = voice.outcome
       /\ \A error \in EngineErrors :
            (/\ voice.engine \in {"starting", "running"}
             /\ voice' = onerror([voice EXCEPT !.engine = "errored"], error, now))
            => IF error \in {"no-speech", "aborted"}
               THEN /\ stillWaiting(voice') /\ voice'.outcome = voice.outcome
                    /\ voice'.engine = "errored"
               ELSE /\ voice'.outcome[s] = <<[result |-> "timeout", by |-> "error"]>>
                    /\ ~stillWaiting(voice')
                    /\ \A x \in voice'.timers : ~(x.kind = "deadline" /\ x.session = s)]_vars

\* the first session was finalized by an engine error; in the second, still
\* waiting, the recognizer ended and was started again
C27_Witness ==
  /\ voice.outcome[1] = <<[result |-> "timeout", by |-> "error"]>>
  /\ stillWaiting(voice)
  /\ voice.options[1].session = 2
  /\ voice.cb[2].listening = <<FALSE>>
  /\ voice.engine = "starting"

\* C28: a deadline timer gives a session the outcome 'timeout' only once the
\* session's own timeoutMs has elapsed since its start().
C28_TimeoutNotEarly ==
  [][\A s \in Sessions :
       (/\ voice.outcome[s] = <<>>
        /\ voice'.outcome[s] # <<>>
        /\ voice'.outcome[s][1].by \in {"deadline", "stale deadline"})
       => now >= voice.deadline[s][1]]_vars

\* C29: on a device without speech recognition every start() has returned
\* false with 'timeout' reported to its onResult exactly once, no timer of the
\* listener is armed, and the call itself leaves the listener's session state
\* as it was.
C29_FallbackReportsTimeout ==
  /\ [](~voice.recognition =>
          /\ voice.timers = {}
          /\ \A s \in 1..voice.started :
               /\ voice.returned[s] = <<FALSE>>
               /\ Len(voice.cb[s].results) = 1
               /\ voice.cb[s].results[1].result = "timeout")
  /\ [][(~voice.recognition /\ voice'.started # voice.started) =>
          /\ voice'.options = voice.options
          /\ voice'.cancelled = voice.cancelled
          /\ voice'.startTime = voice.startTime
          /\ voice'.timeoutId = voice.timeoutId
          /\ voice'.isListening = voice.isListening
          /\ voice'.engine = voice.engine
          /\ voice'.timers = voice.timers]_vars

\* without speech recognition two confirmations were started, the second
\* after a stop(), and both reports have reached the overlay's owner
C29_Witness ==
  /\ ~voice.recognition
  /\ voice.started = 2
  /\ voice.cancelled
  /\ voice.returned[2] = <<FALSE>>
  /\ voice.reports = {}

(***************************************************************************)
(* Claims about the detector and the emergencies of a ride                  *)
(***************************************************************************)
RideTypes == {"fall_detected", "heat_warning"}

C2_AnyTwoAccepted ==
  \A type \in RideTypes :
    ride.prevNotified[type] # <<>>
      => ride.lastNotified[type][1].timestamp - ride.prevNotified[type][1].timestamp
           >= DEBOUNCE_MS

\* C2 (amended): two events of one type accepted with no startMonitoring or
\* stopMonitoring in between are at least 60 s apart, in the notifications,
\* in the history and in the calls of the risk-event handler: a trigger
\* within 60 s of an accepted one leaves no trace.
C2_DebounceWithinMonitoring ==
  /\ \A type \in RideTypes :
       (/\ ride.prevNotified[type] # <<>>
        /\ ride.prevNotified[type][1].epoch = ride.lastNotified[type][1].epoch)
         => ride.lastNotified[type][1].timestamp - ride.prevNotified[type][1].timestamp
              >= DEBOUNCE_MS
  /\ \A e1, e2 \in ride.riskEvents :
       (e1.type = e2.type /\ e1.timestamp < e2.timestamp)
         => e2.timestamp - e1.timestamp >= DEBOUNCE_MS
  /\ \A e \in ride.riskEvents :
       ride.lastNotified[e.type] # <<>> /\ ride.lastNotified[e.type][1].timestamp >= e.timestamp
  /\ ride.lastHandled # <<>>
       => ride.lastNotified[ride.lastHandled[1].type] # <<>>
          /\ ride.lastNotified[ride.lastHandled[1].type][1].timestamp
               >= ride.lastHandled[1].timestamp

\* the debounce has dropped a trigger, and an event of a type accepted before
\* was accepted again in the same monitoring
C2_Witness ==
  /\ ride.dropped
  /\ \E type \in RideTypes :
       /\ ride.prevNotified[type] # <<>>
       /\ ride.prevNotified[type][1].epoch = ride.lastNotified[type][1].epoch

\* the stored emergency events of ride session s that are 'active'
ActiveEmergencies(s) ==
  {i \in 1..Len(ride.emergencyEvents) :
     ride.emergencyEvents[i].session = s /\ ride.emergencyEvents[i].status = "active"}

\* the confirmation sessions whose deadline is still armed
ActiveConfirmations ==
  {s \in Sessions : \E x \in voice.timers : x.session = s /\ x.kind = "deadline"}

\* C10: at most one stored EmergencyEvent of a ride is 'active', and at most
\* one confirmation session is active.
C10_AtMostOneActive ==
  /\ \A s \in 1..MaxRides : Cardinality(ActiveEmergencies(s)) <= 1
  /\ Cardinality(ActiveConfirmations) <= 1

\* C11: an emergency raised during a ride and cancelled in its countdown has
\* its stored status set to 'false_alarm' by the cancel; a countdown timer is
\* pending only for the emergency that is active and counting down (a
\* cancelled countdown ticks no more), and the overlay is in its 'active'
\* phase only while an emergency is active.
C11_CancelInCountdown ==
  /\ (ride.lastCancel # <<>> /\ ride.lastCancel[1].session # 0)
       => ride.lastCancel[1].recorded = "false_alarm"
  /\ \A x \in ride.timers :
       x.kind = "countdown"
         => /\ ride.isEmergencyActive /\ ride.phase = "countdown"
            /\ ride.activatedAt = <<x.due - COUNTDOWN_SECONDS * 1000>>
  /\ ride.phase = "active" => ride.isEmergencyActive

\* C17: the falseAlarmCount of the cell of an emergency raised during a ride
\* (its location is known) has been incremented once an emergency has ended
\* as 'false_alarm', and only then; no ending changes the trueAlarmCount.
C17_FalseAlarmReinforced ==
  LET stored == IF memories[EventCell] = <<>>
                THEN [falseAlarmCount |-> 0, trueAlarmCount |-> 0]
                ELSE memories[EventCell][1]
      cancelled == ride.lastCancel # <<>> /\ ride.lastCancel[1].session # 0
  IN /\ cancelled => stored.falseAlarmCount >= 1
     /\ ~cancelled => stored.falseAlarmCount = 0
     /\ stored.trueAlarmCount = 0

(***************************************************************************)
(* Claims about the offline store                                           *)
(***************************************************************************)
TerminalStatuses == {"resolved", "false_alarm"}

\* C12: once a stored EmergencyEvent has status 'resolved' or 'false_alarm',
\* no step (an operation, or the completion of a sync begun while the event
\* was 'active') changes the status that the store holds for it.
C12_TerminalStatusKept ==
  [][\A i \in 1..Len(store.local.emergency) :
       store.local.emergency[i].status \in TerminalStatuses
         => \A j \in 1..Len(store'.local.emergency) :
              store'.local.emergency[j].id = store.local.emergency[i].id
                => store'.local.emergency[j].status = store.local.emergency[i].status]_vars

(***************************************************************************)
(* Claims about the location memory                                         *)
(***************************************************************************)

\* C13: in every step (recordFalseAlarm, recordTrueAlert, the return of an
\* upload, the merge of a load, the cleanup, the network, the clock) the
\* falseAlarmCount and the trueAlarmCount of every stored cell do not
\* decrease, except that the whole entry may go when it was last triggered
\* more than 30 days ago.
C13_CountsNeverDecrease ==
  [][\A c \in Cells :
       memories[c] # <<>>
         => IF memories'[c] = <<>>
            THEN memories[c][1].lastTriggered < now - THIRTY_DAYS
            ELSE /\ memories'[c][1].falseAlarmCount >= memories[c][1].falseAlarmCount
                 /\ memories'[c][1].trueAlarmCount >= memories[c][1].trueAlarmCount]_vars

\* the last load merged a remote count lower than the local one, and an
\* entry is stored
C13_Witness ==
  /\ memNet.lastLoad.status = "merged"
  /\ memNet.lastLoad.lower
  /\ \E c \in Cells : memories[c] # <<>>

\* round(k * f / n) for n > 0, stated by its bounds: the integer r with
\* r - 1/2 <= k * f / n < r + 1/2
IsRounded(r, k, f, n) ==
  /\ (2 * r - 1) * n <= 2 * k * f
  /\ 2 * k * f < (2 * r + 1) * n

\* C14: for a cell with counters (f, t) getLocationConfidenceAdjustment
\* returns 0 when the cell is unknown or f + t = 0, -round(10 f / (f + t))
\* when 0 < f + t < 3 and -round(30 f / (f + t)) when f + t >= 3; the result
\* is an integer in [-30, 0], and it is -24 for f = 8, t = 2.
C14_AdjustmentFormula ==
  memNet.adjustment # <<>> =>
    LET memory == memories[memNet.adjustment[1].cell]
        value == memNet.adjustment[1].value
        f == memory[1].falseAlarmCount
        n == memory[1].falseAlarmCount + memory[1].trueAlarmCount
    IN /\ value \in -30..0
       /\ IF memory = <<>> THEN value = 0
          ELSE /\ n = 0 => value = 0
               /\ (0 < n /\ n < 3) => IsRounded(-value, 10, f, n)
               /\ n >= 3 => IsRounded(-value, 30, f, n)
               /\ (f = 8 /\ n = 10) => value = -24

\* the adjustment of the cell with 8 false and 2 true alarms was asked for
C14_Witness ==
  /\ memNet.adjustment # <<>>
  /\ memories[memNet.adjustment[1].cell] # <<>>
  /\ memories[memNet.adjustment[1].cell][1].falseAlarmCount = 8
  /\ memories[memNet.adjustment[1].cell][1].trueAlarmCount = 2
  /\ memNet.adjustment[1].value = -24

\* the counts of a stored entry, a missing entry counting as 0
CountsOr0(entry) ==
  IF entry = <<>> THEN [falseAlarmCount |-> 0, trueAlarmCount |-> 0] ELSE Counts(entry[1])

\* C15: the step in which loadMemoriesFromCloud merges the rows it received
\* leaves, for every cell among the rows, falseAlarmCount = max(previous
\* local, remote false_alarm_count) and trueAlarmCount likewise (a missing
\* entry counts as 0), and leaves the cells absent from the rows unchanged.
C15_LoadMergesMax ==
  [][(memNet.load # <<>> /\ memNet'.load = <<>> /\ memNet'.lastLoad.status = "merged")
       => \A c \in Cells :
            LET row == memNet.load[1].data[1][c]
            IN IF row = <<>> THEN memories'[c] = memories[c]
               ELSE /\ memories'[c] # <<>>
                    /\ memories'[c][1].falseAlarmCount =
                         Max(CountsOr0(memories[c]).falseAlarmCount, row[1].false_alarm_count)
                    /\ memories'[c][1].trueAlarmCount =
                         Max(CountsOr0(memories[c]).trueAlarmCount, row[1].true_alarm_count)]_vars

\* the last load merged a remote count higher than the local one
C15_Witness ==
  /\ memNet.lastLoad.status = "merged"
  /\ memNet.lastLoad.higher

\* an upsert for the cell is in flight: a syncMemoryToCloud call awaits it, or
\* the loop of a syncAllMemories call has it still to send
InFlight(c) ==
  \E u \in memNet.uploads :
    u.cell = c \/ \E i \in 1..Len(u.rest) : u.rest[i].cell = c

\* C38: whenever no upsert for a cell is in flight and the local entry of the
\* cell is marked synced, the remote row of the cell holds the
\* falseAlarmCount and the trueAlarmCount of the local entry, under every
\* interleaving of the record calls, the uploads and the loads.
C38_SyncedMeansEqual ==
  \A c \in Cells :
    (memories[c] # <<>> /\ memories[c][1].synced /\ ~InFlight(c)) =>
      /\ memNet.rows[c] # <<>>
      /\ memNet.rows[c][1].false_alarm_count = memories[c][1].falseAlarmCount
      /\ memNet.rows[c][1].true_alarm_count = memories[c][1].trueAlarmCount

\* C39: the counters of a remote row never decrease: no upsert writes a
\* false_alarm_count or a true_alarm_count smaller than the one the row
\* holds, also after a local cleanup and when no load has run before the
\* record call.
C39_RemoteNeverDecreases ==
  [][\A c \in Cells :
       memNet.rows[c] # <<>> =>
         /\ memNet'.rows[c] # <<>>
         /\ memNet'.rows[c][1].false_alarm_count >= memNet.rows[c][1].false_alarm_count
         /\ memNet'.rows[c][1].true_alarm_count >= memNet.rows[c][1].true_alarm_count]_vars

\* the local entry of the cell is marked synced = false
MarkedUnsynced(c) == memories[c] # <<>> /\ ~memories[c][1].synced

\* C35: when the device comes online again and upserts succeed in the end,
\* every local entry marked synced = false is eventually upserted (it stops
\* being marked unsynced); and the return of a failed upsert neither changes
\* nor removes the counters of any local entry.
C35_UnsyncedEventuallyUpserted ==
  /\ \A c \in Cells : MarkedUnsynced(c) ~> ~MarkedUnsynced(c)
  /\ [][\A u \in memNet.uploads : \A outcome \in UpsertOutcomes \ {"ok"} :
         memNet' = uploadReturns(MemState, u, outcome, now).net =>
           \A c \in Cells :
             /\ memories[c] # <<>> => memories'[c] # <<>>
             /\ CountsOr0(memories'[c]) = CountsOr0(memories[c])]_vars

\* C18: every record that a save, end or resolve operation wrote is in its
\* local list, with the fields that the last such operation wrote, whatever
\* syncToCloud runs were in flight.
C18_RecordsKept ==
  \A n \in 1..Len(StoreLists) :
    LET list == StoreLists[n] IN
    \A id \in 1..Len(store.written[list]) :
      \E i \in 1..Len(store.local[list]) :
        /\ store.local[list][i].id = id
        /\ Payload(list, store.local[list][i]) = store.written[list][id]

\* no syncToCloud or syncEmergencyToCloud call is in flight and no stored
\* record is marked unsynced: a sync started from here sends nothing
NothingToSend ==
  /\ store.online
  /\ store.runs = <<>>
  /\ store.prio = {}
  /\ \A n \in 1..Len(StoreLists) : Unsynced(store.local[StoreLists[n]]) = <<>>

\* C19: no record is left unsent: once the device is online with no sync in
\* flight and nothing marked unsynced, the remote store holds every session,
\* risk event and emergency event that was saved, with its latest status.
C19_NothingLeftUnsent ==
  NothingToSend =>
    \A n \in 1..Len(StoreLists) :
      LET list == StoreLists[n] IN
      \A id \in 1..Len(store.written[list]) :
        [id |-> id, payload |-> store.written[list][id]] \in store.remote[list]

\* C20: during a ride that has a session id, every risk event the monitor
\* accepted (it is in the monitor's riskEvents, which start empty with the
\* ride) has been stored by saveRiskEvent under that ride's session id.
C20_AcceptedEventsStored ==
  (ride.isActive /\ ride.isRideActive /\ ride.sessionId # 0) =>
    \A e \in ride.riskEvents :
      [session |-> ride.sessionId, type |-> e.type, timestamp |-> e.timestamp]
        \in ride.riskStored

=============================================================================
